---- MODULE Spec2Model ----
(***************************************************************************)
(* A model of the weather query API (src/src/step04_api/api.py):           *)
(* retry_request, the bounded retry loop, and request_current_weather,    *)
(* the two-stage exchange with the National Weather Service built on it.  *)
(* Further sections model identify_closest_coordinates,                   *)
(* filter_df_by_id_and_date, the endpoint functions, two requests at a    *)
(* time, and the batch loop of the downloader                              *)
(* (src/src/step02_download/download_isd_lite.py).                         *)
(*                                                                         *)
(* Conventions.                                                            *)
(*  - A JSON value is a tagged record [t, v]: t names the Python type the *)
(*    payload decodes to ("dict", "list", "str", "num", "null") and v     *)
(*    holds the value; a Python str is the sequence of its characters, so *)
(*    that str.lower() and the `in` substring test are computed.          *)
(*  - An expression that may raise evaluates to [raised, exc, v].         *)
(*  - Each call of an external operation returns a fresh Response object; *)
(*    its identity is the serial number id of the call that produced it.  *)
(*  - temperature_celsius is kept exactly, as a numerator over            *)
(*    CelsiusDenominator, since 5/9 * (f - 32) is not an integer.         *)
(***************************************************************************)
EXTENDS Integers, Sequences, FiniteSets, TLC

(***************************************************************************)
(* Bounds of the model                                                     *)
(***************************************************************************)
\* retry_request is called directly with max_attempts in -MaxBelow..MaxRetry
MaxRetry == 4
MaxBelow == 2
\* and with sleep_duration in 0..MaxDelay
MaxDelay == 2

(***************************************************************************)
(* Python strings as character sequences                                   *)
(***************************************************************************)
UpperToLower ==
    [A |-> "a", B |-> "b", C |-> "c", D |-> "d", E |-> "e", F |-> "f",
     G |-> "g", H |-> "h", I |-> "i", J |-> "j", K |-> "k", L |-> "l",
     M |-> "m", N |-> "n", O |-> "o", P |-> "p", Q |-> "q", R |-> "r",
     S |-> "s", T |-> "t", U |-> "u", V |-> "v", W |-> "w", X |-> "x",
     Y |-> "y", Z |-> "z"]

\* str.lower()
Lower(s) ==
    [k \in 1..Len(s) |->
        IF s[k] \in DOMAIN UpperToLower THEN UpperToLower[s[k]] ELSE s[k]]

\* needle in s
Contains(needle, s) ==
    \E k \in 0..(Len(s) - Len(needle)) :
        SubSeq(s, k + 1, k + Len(needle)) = needle

(***************************************************************************)
(* JSON values and Python subscripting                                     *)
(***************************************************************************)
JDict(d) == [t |-> "dict", v |-> d]
JList(l) == [t |-> "list", v |-> l]
JStr(s)  == [t |-> "str", v |-> s]
JNum(n)  == [t |-> "num", v |-> n]
JNull    == [t |-> "null", v |-> 0]
\* a body that is not JSON: Response.json() raises on it
NotJson  == [t |-> "notjson", v |-> 0]

Value(x)    == [raised |-> FALSE, exc |-> "", v |-> x]
Raised(exc) == [raised |-> TRUE, exc |-> exc, v |-> JNull]

\* response.json()
ResponseJson(resp) ==
    IF resp.body.t = "notjson" THEN Raised("JSONDecodeError")
    ELSE Value(resp.body)

\* a lookup that yields None for a missing key, as dict.get does
GetItem_LikeGet(r, key) ==
    IF r.raised THEN r
    ELSE IF r.v.t = "dict"
    THEN IF key \in DOMAIN r.v.v THEN Value(r.v.v[key]) ELSE Value(JNull)
    ELSE Raised("TypeError")

\* r[key] for a str key, r the result of the expression to its left
GetItem(r, key) ==
    IF r.raised THEN r
    ELSE IF r.v.t = "dict"
    THEN IF key \in DOMAIN r.v.v THEN Value(r.v.v[key]) ELSE Raised("KeyError")
    ELSE Raised("TypeError")

\* r[0]
GetFirst(r) ==
    IF r.raised THEN r
    ELSE CASE r.v.t = "list" ->
                IF Len(r.v.v) > 0 THEN Value(r.v.v[1]) ELSE Raised("IndexError")
           [] r.v.t = "str" ->
                IF Len(r.v.v) > 0 THEN Value(JStr(<<r.v.v[1]>>))
                ELSE Raised("IndexError")
           [] r.v.t = "dict" -> Raised("KeyError")
           [] OTHER -> Raised("TypeError")

(***************************************************************************)
(* Responses of the external operations                                    *)
(***************************************************************************)
Response(ok, id, body) == [ok |-> ok, id |-> id, body |-> body]
NoResponse == Response(FALSE, 0, JNull)

\* bodies returned by the operation retry_request is called with directly
OperationBodies == << JDict([status |-> JNum(200)]), NotJson >>

\* Python str literals used in the payloads
str_invalidpoint   == <<"i", "n", "v", "a", "l", "i", "d", "p", "o", "i", "n", "t">>
str_invalidPoint   == <<"i", "n", "v", "a", "l", "i", "d", "P", "o", "i", "n", "t">>
str_INVALIDPOINT   == <<"I", "N", "V", "A", "L", "I", "D", "P", "O", "I", "N", "T">>
str_problems_path  == <<"p", "r", "o", "b", "l", "e", "m", "s", "/", "I", "n", "v", "a", "l", "i", "d", "P", "o", "i", "n", "t", "/", "x">>
str_invalid_point  == <<"i", "n", "v", "a", "l", "i", "d", " ", "p", "o", "i", "n", "t">>
str_NotFound       == <<"N", "o", "t", "F", "o", "u", "n", "d">>
str_empty          == << >>
str_Homer          == <<"H", "o", "m", "e", "r">>
str_IL             == <<"I", "L">>
str_KILX           == <<"K", "I", "L", "X">>
str_url            == <<"h", "t", "t", "p", "s", ":", "/", "/", "f">>
str_abc            == <<"a", "b", "c">>

\* the station payload of test_request_current_weather_02, and the same
\* payload with one part left out
RelativeLocationFull ==
    JDict([properties |-> JDict([city |-> JStr(str_Homer), state |-> JStr(str_IL)])])
StationFull ==
    JDict([properties |-> JDict([
        forecast |-> JStr(str_url),
        relativeLocation |-> RelativeLocationFull,
        radarStation |-> JStr(str_KILX)])])
StationNoRadar ==
    JDict([properties |-> JDict([
        forecast |-> JStr(str_url),
        relativeLocation |-> RelativeLocationFull])])
StationNoCity ==
    JDict([properties |-> JDict([
        forecast |-> JStr(str_url),
        relativeLocation |-> JDict([properties |-> JDict([state |-> JStr(str_IL)])]),
        radarStation |-> JStr(str_KILX)])])
StationNoState ==
    JDict([properties |-> JDict([
        forecast |-> JStr(str_url),
        relativeLocation |-> JDict([properties |-> JDict([city |-> JStr(str_Homer)])]),
        radarStation |-> JStr(str_KILX)])])
StationNoLocation ==
    JDict([properties |-> JDict([
        forecast |-> JStr(str_url),
        radarStation |-> JStr(str_KILX)])])
StationNoForecast ==
    JDict([properties |-> JDict([
        relativeLocation |-> RelativeLocationFull,
        radarStation |-> JStr(str_KILX)])])
EmptyDict == JDict([x \in {} |-> JNull])
StationNullProperties == JDict([properties |-> JNull])
ProblemOfType(ty) == JDict([type |-> ty])

\* bodies returned by request_station_information
StationBodies ==
    << StationFull, StationNoRadar, StationNoCity, StationNoState,
       StationNoLocation, StationNoForecast, EmptyDict, StationNullProperties,
       ProblemOfType(JStr(str_invalidPoint)),
       ProblemOfType(JStr(str_INVALIDPOINT)),
       ProblemOfType(JStr(str_problems_path)),
       ProblemOfType(JStr(str_invalid_point)),
       ProblemOfType(JStr(str_NotFound)),
       ProblemOfType(JStr(str_empty)),
       ProblemOfType(JNum(404)),
       ProblemOfType(JNull),
       NotJson >>

ForecastOfPeriods(periods) == JDict([properties |-> JDict([periods |-> periods])])
ForecastOfTemperature(temp) ==
    ForecastOfPeriods(JList(<< JDict([temperature |-> temp]) >>))

\* bodies returned by requests.get on the forecast URL; temperatures are in
\* degrees Fahrenheit
ForecastBodies ==
    << ForecastOfTemperature(JNum(23)),
       ForecastOfTemperature(JNum(212)),
       ForecastOfTemperature(JNum(-40)),
       ForecastOfTemperature(JNum(1000)),
       ForecastOfTemperature(JStr(str_abc)),
       ForecastOfTemperature(JNull),
       ForecastOfPeriods(JList(<< EmptyDict >>)),
       ForecastOfPeriods(JList(<< >>)),
       ForecastOfPeriods(JStr(str_abc)),
       EmptyDict,
       NotJson >>

\* every payload each external operation may answer with
AllBodies ==
    [station |-> StationBodies, forecast |-> ForecastBodies,
     operation |-> OperationBodies]

(***************************************************************************)
(* State                                                                   *)
(***************************************************************************)
VARIABLES
    pc,              \* position of the caller of retry_request
    stage,           \* the operation retry_request is running
    max_attempts,    \* retry_request: argument retry_counter as passed
    sleep_duration,  \* retry_request: argument sleep_duration
    retry_counter,   \* retry_request: local retry_counter after line 137
    i,               \* retry_request: loop index
    response,        \* retry_request: local response
    rr_pc,           \* retry_request: position
    ret,             \* retry_request: returned value
    log,             \* operation calls and sleeps, in the order they happened
    station_response,   \* request_current_weather: local station_response
    forecast_url,       \* request_current_weather: local forecast_url
    forecast_response,  \* request_current_weather: local forecast_response
    current_weather,    \* request_current_weather: the value returned
    exception,          \* request_current_weather: the exception raised
    icc_pc,             \* identify_closest_coordinates: position
    input_coordinates,  \* identify_closest_coordinates: argument
    coordinates_df,     \* identify_closest_coordinates: argument
    kilometers,         \* gd.distance(input_coordinates, .).kilometers
    row_i,              \* identify_closest_coordinates: loop index i
    min_distance,       \* identify_closest_coordinates: local min_distance
    min_distance_idx,   \* identify_closest_coordinates: local min_distance_idx
    closest,            \* identify_closest_coordinates: the tuple returned
    icc_exception,      \* identify_closest_coordinates: the exception raised
    fdf_pc,             \* filter_df_by_id_and_date: position
    df,                 \* filter_df_by_id_and_date: argument
    output_colnames,    \* filter_df_by_id_and_date: argument
    id,                 \* filter_df_by_id_and_date: argument
    id_colname,         \* filter_df_by_id_and_date: argument
    date_colname,       \* filter_df_by_id_and_date: argument
    target_datetime,    \* filter_df_by_id_and_date: argument
    idx_srs,            \* filter_df_by_id_and_date: local idx at line 258
    df1,                \* filter_df_by_id_and_date: the dataframe returned
    fdf_exception,      \* filter_df_by_id_and_date: the exception raised
    external,           \* the payloads the external operations may answer with
    args,               \* retry_request: *args, handed to request_func
    coordinates,        \* request_current_weather: argument
    gh_pc,              \* get_historical_and_current_temperatures: position
    gh_coordinates,     \* get_historical_and_current_temperatures: argument
    catalog,            \* the file output/stations_to_download.parquet
    archive,            \* the file isd_lite_compiled/<usaf>-<wban>.parquet
    now,                \* datetime.datetime.now()
    station_df,         \* get_historical_and_current_temperatures: local
    station_data,       \* get_historical_and_current_temperatures: local
    temperature_dict,   \* get_historical_and_current_temperatures: local
    annual_weather,     \* get_historical_and_current_temperatures: value returned
    gh_exception,       \* get_historical_and_current_temperatures: exception raised
    gh_steps,           \* the steps of the request, in the order they ran
    dl_pc,              \* download_isd_lite.main: position in the batch loop
    file_n,             \* download_isd_lite.main: len(file_urls)
    idxs,               \* download_isd_lite.main: local idxs
    dl_i,               \* download_isd_lite.main: loop index i
    time_delay,         \* download_isd_lite.main: local time_delay
    batches,            \* the slices handed to download_and_save_urls
    saved,              \* the indexes of the files written
    slept,              \* the arguments of time.sleep, in order
    dl_exception,       \* download_isd_lite.main: the exception raised
    tasks,              \* request_url_responses: the tasks that sent their request
    downloads,          \* download_and_save_urls: local downloads
    save_i,             \* download_and_save_urls: loop index i
    endpoint,           \* the endpoint function the running request is in
    parked,             \* the variables of the request that is not running
    overlapped          \* a request was resumed while the other was under way

\* the arguments of the running retry_request, and the caller's variables
rr_args == << stage, max_attempts, sleep_duration, args >>
rcw_vars == << pc, station_response, forecast_url, forecast_response,
               current_weather, exception >>

\* the variables of identify_closest_coordinates and its arguments
icc_vars == << icc_pc, input_coordinates, coordinates_df, kilometers, row_i,
               min_distance, min_distance_idx, closest, icc_exception >>
\* the variables of filter_df_by_id_and_date and its arguments
fdf_vars == << fdf_pc, df, output_colnames, id, id_colname, date_colname,
               target_datetime, idx_srs, df1, fdf_exception >>
\* the variables of retry_request and request_current_weather
rcw_all_vars == << pc, stage, max_attempts, sleep_duration, retry_counter, i,
                   response, rr_pc, ret, log, station_response, forecast_url,
                   forecast_response, current_weather, exception, args >>
\* the variables of get_historical_and_current_temperatures, its
\* arguments and the files it reads
gh_vars == << gh_pc, gh_coordinates, catalog, archive, now, station_df,
              station_data, temperature_dict, annual_weather, gh_exception,
              gh_steps >>
\* the variables no function of api.py assigns: the environment of the
\* external operations and the argument of request_current_weather
\* the variables of the batch loop of download_isd_lite.main
dl_vars == << dl_pc, file_n, idxs, dl_i, time_delay, batches, saved, slept,
              dl_exception, tasks, downloads, save_i >>
\* the variables of the downloader and of the second request
other_vars == << dl_vars, endpoint, parked, overlapped >>
rest_vars == << external, coordinates, gh_vars, other_vars >>

vars == << rcw_all_vars, icc_vars, fdf_vars, rest_vars >>

\* the payloads operation who may answer with
Bodies(who) == external[who]

\* float('inf') and the finite distances, in kilometers
Infinity == [inf |-> TRUE, km |-> 0]
Finite(km) == [inf |-> FALSE, km |-> km]
\* pl.DataFrame(): no columns, no rows
EmptyDataFrame == [columns |-> << >>, dtypes |-> << >>, rows |-> << >>]

\* Coordinates(latitude = lat, longitude = lon)
Coordinates(lat, lon) == [latitude |-> lat, longitude |-> lon]

\* get_historical_and_current_temperatures is not running
AnnualIdle ==
    /\ gh_pc = "idle"
    /\ gh_coordinates = Coordinates(0, 0)
    /\ catalog = EmptyDataFrame
    /\ archive = EmptyDataFrame
    /\ now = << >>
    /\ station_df = EmptyDataFrame
    /\ station_data = << >>
    /\ temperature_dict = << >>
    /\ annual_weather = << >>
    /\ gh_exception = ""
    /\ gh_steps = << >>

\* the batch loop of download_isd_lite.main is not running
DownloadIdle ==
    /\ dl_pc = "idle"
    /\ file_n = 0
    /\ idxs = << >>
    /\ dl_i = 0
    /\ time_delay = 0
    /\ batches = << >>
    /\ saved = {}
    /\ slept = << >>
    /\ dl_exception = ""
    /\ tasks = 0
    /\ downloads = << >>
    /\ save_i = 0

\* one request, in endpoint function ep, and no downloader
OthersIdle(ep) ==
    /\ DownloadIdle
    /\ endpoint = ep
    /\ parked = << >>
    /\ overlapped = FALSE

\* the coordinates of the queries of test_get_historical_and_current_temperatures_02
\* and _04
QueryCoordinates == { Coordinates(40, -88), Coordinates(40, 88) }

\* identify_closest_coordinates is not running
ClosestIdle ==
    /\ icc_pc = "idle"
    /\ input_coordinates = << >>
    /\ coordinates_df = EmptyDataFrame
    /\ kilometers = << >>
    /\ row_i = 0
    /\ min_distance = Infinity
    /\ min_distance_idx = -1
    /\ closest = << -1, Infinity >>
    /\ icc_exception = ""

\* filter_df_by_id_and_date is not running
FilterIdle ==
    /\ fdf_pc = "idle"
    /\ df = EmptyDataFrame
    /\ output_colnames = << >>
    /\ id = 0
    /\ id_colname = ""
    /\ date_colname = ""
    /\ target_datetime = << >>
    /\ idx_srs = << >>
    /\ df1 = EmptyDataFrame
    /\ fdf_exception = ""

\* `return response, i` and the implicit `return None`
Returned(resp, n) == [none |-> FALSE, response |-> resp, attempts |-> n]
ReturnedNone == [none |-> TRUE, response |-> NoResponse, attempts |-> 0]

CallEvent(who, resp) ==
    [op |-> "call", who |-> who, ok |-> resp.ok, id |-> resp.id, dur |-> 0,
     args |-> args]
SleepEvent(who, dur) ==
    [op |-> "sleep", who |-> who, ok |-> FALSE, id |-> 0, dur |-> dur,
     args |-> << >>]

\* positions in the log of the calls of operation who, and of the sleeps
\* taken while retrying it
CallsOf(who) == {k \in 1..Len(log) : log[k].op = "call" /\ log[k].who = who}
SleepsOf(who) == {k \in 1..Len(log) : log[k].op = "sleep" /\ log[k].who = who}

(***************************************************************************)
(* retry_request                                                           *)
(***************************************************************************)
\* a retry loop that makes one attempt more than it was given
ClampRetryCounter_OneMore(n) == IF n < 1 THEN 0 ELSE n + 1

\* lines 136-137
ClampRetryCounter(n) == IF n < 1 THEN 0 ELSE n

\* a retry loop that tests the response the wrong way round
ResponseOk_Negated(resp) == ~resp.ok

\* line 141
ResponseOk(resp) == resp.ok

\* a retry loop that gives up one attempt early
NotLastAttempt_OneShort(idx, counter) == idx < counter - 2

\* a retry loop that also sleeps after its last attempt
NotLastAttempt_OneMore(idx, counter) == idx < counter

\* line 143
NotLastAttempt(idx, counter) == idx < counter - 1

\* lines 142 and 146
ReturnValue(resp, idx) == Returned(resp, idx)

RetryEnter ==
    /\ rr_pc = "entry"
    /\ retry_counter' = ClampRetryCounter(max_attempts)
    /\ i' = 0
    /\ rr_pc' = "loop"
    /\ UNCHANGED << rr_args, rcw_vars, response, ret, log >>
    /\ UNCHANGED << icc_vars, fdf_vars, rest_vars >>

\* the head of the for loop: the next iteration calls request_func, and an
\* exhausted range leaves the loop and the function, which returns None
RetryIterate ==
    /\ rr_pc = "loop"
    /\ IF i < retry_counter
       THEN \E ok \in BOOLEAN, b \in 1..Len(Bodies(stage)) :
              LET resp == Response(ok, Len(log) + 1, Bodies(stage)[b]) IN
              /\ response' = resp
              /\ log' = Append(log, CallEvent(stage, resp))
              /\ rr_pc' = "check"
              /\ ret' = ret
       ELSE /\ ret' = ReturnedNone
            /\ rr_pc' = "done"
            /\ UNCHANGED << response, log >>
    /\ UNCHANGED << rr_args, rcw_vars, retry_counter, i >>
    /\ UNCHANGED << icc_vars, fdf_vars, rest_vars >>

\* lines 141-142
RetryReturnOk ==
    /\ rr_pc = "check"
    /\ ResponseOk(response)
    /\ ret' = ReturnValue(response, i)
    /\ rr_pc' = "done"
    /\ UNCHANGED << rr_args, rcw_vars, retry_counter, i, response, log >>
    /\ UNCHANGED << icc_vars, fdf_vars, rest_vars >>

\* lines 143-144, and the loop's increment
RetrySleep ==
    /\ rr_pc = "check"
    /\ ~ResponseOk(response)
    /\ NotLastAttempt(i, retry_counter)
    /\ log' = Append(log, SleepEvent(stage, sleep_duration))
    /\ i' = i + 1
    /\ rr_pc' = "loop"
    /\ UNCHANGED << rr_args, rcw_vars, retry_counter, response, ret >>
    /\ UNCHANGED << icc_vars, fdf_vars, rest_vars >>

\* lines 145-146
RetryReturnLast ==
    /\ rr_pc = "check"
    /\ ~ResponseOk(response)
    /\ ~NotLastAttempt(i, retry_counter)
    /\ ret' = ReturnValue(response, i)
    /\ rr_pc' = "done"
    /\ UNCHANGED << rr_args, rcw_vars, retry_counter, i, response, log >>
    /\ UNCHANGED << icc_vars, fdf_vars, rest_vars >>

RetryStep ==
    \/ RetryEnter
    \/ RetryIterate
    \/ RetryReturnOk
    \/ RetrySleep
    \/ RetryReturnLast

(***************************************************************************)
(* request_current_weather                                                 *)
(***************************************************************************)
retry_n == 3
retry_delay == 4

\* CurrentWeather.temperature_celsius: its default, and the denominator of
\* the 5/9 of convert_fahrenheit_to_celsius, in whose units it is kept
default_temperature_celsius == -9999
CelsiusDenominator == 9

\* provide_response_error_messages
forecast_url_missing_message ==
    "Valid response from current weather API, but forecast URL not in expected place in response."
invalid_input_coordinates_message ==
    "Invalid input coordinates.  The first coordinate should be latitude; the second should be longitude.  Ensure that the coordinates are within the United States."
invalid_weather_api_response_message ==
    "Invalid response from current weather API."
temperature_missing_message ==
    "Valid response from current weather API, but temperature not in expected place in response."
location_missing_message ==
    "Valid response from current weather API, but location information is incomplete."

\* a CurrentWeather whose city does not default to the empty string
CurrentWeather_CityDefault(valid) ==
    [valid_response      |-> valid,
     temperature_celsius |-> default_temperature_celsius * CelsiusDenominator,
     radar_station       |-> JStr(str_empty),
     coordinates_city    |-> JStr(str_Homer),
     coordinates_state   |-> JStr(str_empty),
     error_message       |-> ""]

\* CurrentWeather(valid_response = valid): the other fields at their defaults
CurrentWeather(valid) ==
    [valid_response      |-> valid,
     temperature_celsius |-> default_temperature_celsius * CelsiusDenominator,
     radar_station       |-> JStr(str_empty),
     coordinates_city    |-> JStr(str_empty),
     coordinates_state   |-> JStr(str_empty),
     error_message       |-> ""]

\* a conversion that leaves out the parentheses: 5/9 * fahrenheit - 32
convert_fahrenheit_to_celsius_NoParentheses(fahrenheit) ==
    IF fahrenheit.t = "num"
    THEN Value(5 * fahrenheit.v - 32 * CelsiusDenominator)
    ELSE Raised("TypeError")

\* 5/9 * (fahrenheit - 32), as a numerator over CelsiusDenominator; the
\* subtraction raises TypeError when the operand is not a number
convert_fahrenheit_to_celsius(fahrenheit) ==
    IF fahrenheit.t = "num" THEN Value(5 * (fahrenheit.v - 32))
    ELSE Raised("TypeError")

\* how a part of request_current_weather ends
OutReturn(cw)    == [kind |-> "return", cw |-> cw, exc |-> "", url |-> JNull]
OutRaise(exc)    == [kind |-> "raise", cw |-> CurrentWeather(FALSE), exc |-> exc, url |-> JNull]
OutContinue(url) == [kind |-> "continue", cw |-> CurrentWeather(FALSE), exc |-> "", url |-> url]

\* line 370
IsInvalidPoint(error_type) == Contains(str_invalidpoint, Lower(error_type))

\* a station stage without its early returns: whatever the station response,
\* the forecast is requested
StationOutcome_NoEarlyReturn(resp) ==
    LET url == GetItem(GetItem(ResponseJson(resp), "properties"), "forecast") IN
    IF url.raised THEN OutContinue(JNull) ELSE OutContinue(url.v)

\* lines 355-375: the handling of the station response
StationOutcome(resp) ==
    IF resp.ok
    THEN LET url == GetItem(GetItem(ResponseJson(resp), "properties"), "forecast") IN
         IF url.raised
         THEN OutReturn([CurrentWeather(FALSE) EXCEPT
                            !.error_message = forecast_url_missing_message])
         ELSE OutContinue(url.v)
    ELSE LET error_type == GetItem(ResponseJson(resp), "type") IN
         IF error_type.raised THEN OutRaise(error_type.exc)
         ELSE IF error_type.v.t # "str" THEN OutRaise("AttributeError")
         ELSE IF IsInvalidPoint(error_type.v.v)
         THEN OutReturn([CurrentWeather(FALSE) EXCEPT
                            !.error_message = invalid_input_coordinates_message])
         ELSE OutReturn([CurrentWeather(FALSE) EXCEPT
                            !.error_message = invalid_weather_api_response_message])

\* lines 397-404
StationProperties(resp) == GetItem(ResponseJson(resp), "properties")
LocationProperties(resp) ==
    GetItem(GetItem(StationProperties(resp), "relativeLocation"), "properties")
CityOf(resp) == GetItem(LocationProperties(resp), "city")
StateOf(resp) == GetItem(LocationProperties(resp), "state")
RadarStationOf(resp) == GetItem(StationProperties(resp), "radarStation")

\* an extraction that falls back on 0 when the temperature is not there
TemperatureOf_Default(resp) ==
    LET found == GetItem(GetFirst(GetItem(GetItem(ResponseJson(resp),
                     "properties"), "periods")), "temperature")
    IN IF found.raised THEN Value(JNum(0)) ELSE found

\* lines 389-391
TemperatureOf(resp) ==
    GetItem(GetFirst(GetItem(GetItem(ResponseJson(resp), "properties"), "periods")),
            "temperature")

\* a forecast stage that reports a failed forecast request with a message
ForecastOutcome_FailureMessage(station_resp, forecast_resp) ==
    IF forecast_resp.ok
    THEN OutReturn(CurrentWeather(TRUE))
    ELSE OutReturn([CurrentWeather(FALSE) EXCEPT
                       !.error_message = invalid_weather_api_response_message])

\* a forecast stage with a message of its own for a failed forecast request
ForecastOutcome_SixthMessage(station_resp, forecast_resp) ==
    IF forecast_resp.ok
    THEN OutReturn(CurrentWeather(TRUE))
    ELSE OutReturn([CurrentWeather(FALSE) EXCEPT
                       !.error_message = "Invalid response from forecast API."])

\* lines 384-426: the handling of the forecast response
ForecastOutcome(station_resp, forecast_resp) ==
    IF forecast_resp.ok
    THEN LET current_temperature == TemperatureOf(forecast_resp)
             city == CityOf(station_resp)
             state == StateOf(station_resp)
             radar_station == RadarStationOf(station_resp)
             celsius == convert_fahrenheit_to_celsius(current_temperature.v)
         IN
         IF current_temperature.raised
         THEN OutReturn([CurrentWeather(TRUE) EXCEPT
                            !.error_message = temperature_missing_message])
         ELSE IF city.raised \/ state.raised \/ radar_station.raised
         THEN IF celsius.raised THEN OutRaise(celsius.exc)
              ELSE OutReturn([CurrentWeather(TRUE) EXCEPT
                                 !.temperature_celsius = celsius.v,
                                 !.error_message = location_missing_message])
         ELSE IF celsius.raised THEN OutRaise(celsius.exc)
              ELSE OutReturn([CurrentWeather(TRUE) EXCEPT
                                 !.temperature_celsius = celsius.v,
                                 !.radar_station = radar_station.v,
                                 !.coordinates_city = city.v,
                                 !.coordinates_state = state.v])
    ELSE OutReturn(CurrentWeather(FALSE))

\* `response, _ = retry_request(...)`: unpacking None raises TypeError
Unpacked == IF ret.none THEN Raised("TypeError") ELSE Value(ret.response)

\* lines 351-353: the call of retry_request on request_station_information
CallStation ==
    /\ pc = "start"
    /\ pc' = "station"
    /\ stage' = "station"
    /\ max_attempts' = retry_n
    /\ sleep_duration' = retry_delay
    /\ rr_pc' = "entry"
    /\ args' = << coordinates.latitude, coordinates.longitude >>
    /\ UNCHANGED << retry_counter, i, response, ret, log, station_response,
                    forecast_url, forecast_response, current_weather, exception >>
    /\ UNCHANGED << icc_vars, fdf_vars, rest_vars >>

\* lines 352-382: retry_request has returned the station response; return,
\* raise, or call retry_request on requests.get with the forecast URL
HandleStation ==
    /\ pc = "station"
    /\ rr_pc = "done"
    /\ LET unpacked == Unpacked
           out == IF unpacked.raised THEN OutRaise(unpacked.exc)
                  ELSE StationOutcome(unpacked.v)
       IN
       /\ station_response' = IF unpacked.raised THEN station_response ELSE unpacked.v
       /\ pc' = CASE out.kind = "return" -> "returned"
                  [] out.kind = "raise" -> "raised"
                  [] OTHER -> "forecast"
       /\ current_weather' = IF out.kind = "return" THEN out.cw ELSE current_weather
       /\ exception' = IF out.kind = "raise" THEN out.exc ELSE exception
       /\ forecast_url' = IF out.kind = "continue" THEN out.url ELSE forecast_url
       /\ stage' = IF out.kind = "continue" THEN "forecast" ELSE stage
       /\ max_attempts' = IF out.kind = "continue" THEN retry_n ELSE max_attempts
       /\ sleep_duration' = IF out.kind = "continue" THEN retry_delay ELSE sleep_duration
       /\ rr_pc' = IF out.kind = "continue" THEN "entry" ELSE "idle"
       /\ args' = IF out.kind = "continue" THEN << out.url >> ELSE args
    /\ UNCHANGED << retry_counter, i, response, ret, log, forecast_response >>
    /\ UNCHANGED << icc_vars, fdf_vars, rest_vars >>

\* lines 381-426: retry_request has returned the forecast response
HandleForecast ==
    /\ pc = "forecast"
    /\ rr_pc = "done"
    /\ LET unpacked == Unpacked
           out == IF unpacked.raised THEN OutRaise(unpacked.exc)
                  ELSE ForecastOutcome(station_response, unpacked.v)
       IN
       /\ forecast_response' = IF unpacked.raised THEN forecast_response ELSE unpacked.v
       /\ pc' = IF out.kind = "return" THEN "returned" ELSE "raised"
       /\ current_weather' = IF out.kind = "return" THEN out.cw ELSE current_weather
       /\ exception' = IF out.kind = "raise" THEN out.exc ELSE exception
       /\ rr_pc' = "idle"
    /\ UNCHANGED << rr_args, retry_counter, i, response, ret, log,
                    station_response, forecast_url >>
    /\ UNCHANGED << icc_vars, fdf_vars, rest_vars >>

Init ==
    /\ pc = "start"
    /\ stage = "station"
    /\ max_attempts = retry_n
    /\ sleep_duration = retry_delay
    /\ retry_counter = retry_n
    /\ i = 0
    /\ response = NoResponse
    /\ rr_pc = "idle"
    /\ ret = ReturnedNone
    /\ log = << >>
    /\ station_response = NoResponse
    /\ forecast_url = JNull
    /\ forecast_response = NoResponse
    /\ current_weather = CurrentWeather(FALSE)
    /\ exception = ""
    /\ args = << >>
    /\ external = AllBodies
    /\ coordinates \in QueryCoordinates
    /\ AnnualIdle
    /\ OthersIdle("current")
    /\ ClosestIdle
    /\ FilterIdle

Next ==
    \/ CallStation
    \/ RetryStep
    \/ HandleStation
    \/ HandleForecast

\* every external call returns and every step of the function is taken
SpecFair == Init /\ [][Next]_vars /\ WF_vars(Next)

Spec == Init /\ [][Next]_vars

(***************************************************************************)
(* retry_request called directly, with every max_attempts and delay        *)
(***************************************************************************)
InitRetry ==
    /\ pc = "direct"
    /\ stage = "operation"
    /\ max_attempts \in -MaxBelow..MaxRetry
    /\ sleep_duration \in 0..MaxDelay
    /\ retry_counter = max_attempts
    /\ i = 0
    /\ response = NoResponse
    /\ rr_pc = "entry"
    /\ ret = ReturnedNone
    /\ log = << >>
    /\ station_response = NoResponse
    /\ forecast_url = JNull
    /\ forecast_response = NoResponse
    /\ current_weather = CurrentWeather(FALSE)
    /\ exception = ""
    /\ args = << >>
    /\ external = AllBodies
    /\ coordinates = Coordinates(0, 0)
    /\ AnnualIdle
    /\ OthersIdle("none")
    /\ ClosestIdle
    /\ FilterIdle

NextRetry == RetryStep

SpecRetry == InitRetry /\ [][NextRetry]_vars

\* retry_request and request_current_weather are not running, and the
\* external operations answer with bodies
RequestIdleWith(bodies) ==
    /\ pc = "idle"
    /\ stage = ""
    /\ max_attempts = retry_n
    /\ sleep_duration = retry_delay
    /\ retry_counter = retry_n
    /\ i = 0
    /\ response = NoResponse
    /\ rr_pc = "idle"
    /\ ret = ReturnedNone
    /\ log = << >>
    /\ station_response = NoResponse
    /\ forecast_url = JNull
    /\ forecast_response = NoResponse
    /\ current_weather = CurrentWeather(FALSE)
    /\ exception = ""
    /\ args = << >>
    /\ external = bodies
    /\ coordinates = Coordinates(0, 0)

\* retry_request and request_current_weather are not running
RequestIdle == RequestIdleWith(AllBodies)

(***************************************************************************)
(* identify_closest_coordinates                                            *)
(*                                                                         *)
(* A dataframe is its column names, the dtype of each column and its rows, *)
(* a row being the tuple of its cells in the order of the columns.  The    *)
(* geodesic distance of geopy is a function of the environment: kilometers *)
(* gives, for each point, its distance from input_coordinates, which is 0  *)
(* for the point itself only.                                              *)
(***************************************************************************)
\* the longest station table
MaxStations == 3
\* the largest distance, in kilometers
MaxKm == 2

\* latitude, longitude: rows of the tables of test_identify_closest_coordinates_05..08
Points == { << 70, -160 >>, << 71, -156 >>, << 34, -116 >> }

\* the columns of the tables of test_identify_closest_coordinates_01..08; the
\* cells of a String column are the numerals of the numbers, which the code
\* never reads
TableShapes ==
    << [columns |-> << "lat", "lon" >>, dtypes |-> << "Int64", "Int64" >>],
       [columns |-> << "lat", "lon" >>, dtypes |-> << "Float32", "Float32" >>],
       [columns |-> << "aaa", "lon" >>, dtypes |-> << "Int64", "Int64" >>],
       [columns |-> << "lat", "aaa" >>, dtypes |-> << "Int64", "Int64" >>],
       [columns |-> << "lat", "lon" >>, dtypes |-> << "String", "Int64" >>],
       [columns |-> << "lat", "lon" >>, dtypes |-> << "Int64", "String" >>] >>

DataFrame(shape, rows) ==
    [columns |-> shape.columns, dtypes |-> shape.dtypes, rows |-> rows]

\* name in df.columns
HasColumn(frame, name) ==
    \E k \in 1..Len(frame.columns) : frame.columns[k] = name
ColumnIndex(frame, name) ==
    CHOOSE k \in 1..Len(frame.columns) : frame.columns[k] = name
\* df[name].dtype.is_numeric()
IsNumeric(frame, name) ==
    frame.dtypes[ColumnIndex(frame, name)] \in
        {"Int32", "Int64", "Float32", "Float64"}
\* row[name] of a row of df
Cell(frame, row, name) == row[ColumnIndex(frame, name)]

\* a check that lets the empty table through
TableNonEmpty_Always(frame) == TRUE

\* line 100
TableNonEmpty(frame) == Len(frame.rows) > 0

\* lines 98-104: the assertions all hold
ClosestPrechecks(pair, frame) ==
    /\ Len(pair) = 2
    /\ TableNonEmpty(frame)
    /\ HasColumn(frame, "lat")
    /\ HasColumn(frame, "lon")
    /\ IsNumeric(frame, "lat")
    /\ IsNumeric(frame, "lon")

\* a comparison that lets an equal distance replace the minimum
Less_OrEqual(a, b) == ~a.inf /\ (b.inf \/ a.km <= b.km)

\* a comparison the wrong way round
Less_Greater(a, b) == ~b.inf /\ (a.inf \/ a.km > b.km)

\* line 120: distance < min_distance, on floats
Less(a, b) == ~a.inf /\ (b.inf \/ a.km < b.km)

\* lines 117-118: the distance from input_coordinates to row e
Distance(frame, e) ==
    Finite(kilometers[<< Cell(frame, e, "lat"), Cell(frame, e, "lon") >>])

\* lines 98-113
ClosestPrecheck ==
    /\ icc_pc = "entry"
    /\ IF ClosestPrechecks(input_coordinates, coordinates_df)
       THEN /\ icc_pc' = "loop"
            /\ icc_exception' = icc_exception
       ELSE /\ icc_pc' = "raised"
            /\ icc_exception' = "AssertionError"
    /\ min_distance' = Infinity
    /\ min_distance_idx' = -1
    /\ row_i' = 0
    /\ UNCHANGED << input_coordinates, coordinates_df, kilometers, closest >>
    /\ UNCHANGED << rcw_all_vars, fdf_vars, rest_vars >>

\* lines 115-121: one iteration of the loop over the rows
ClosestIterate ==
    /\ icc_pc = "loop"
    /\ row_i < Len(coordinates_df.rows)
    /\ LET distance == Distance(coordinates_df, coordinates_df.rows[row_i + 1])
       IN IF Less(distance, min_distance)
          THEN /\ min_distance_idx' = row_i
               /\ min_distance' = distance
          ELSE UNCHANGED << min_distance_idx, min_distance >>
    /\ row_i' = row_i + 1
    /\ UNCHANGED << icc_pc, input_coordinates, coordinates_df, kilometers,
                    closest, icc_exception >>
    /\ UNCHANGED << rcw_all_vars, fdf_vars, rest_vars >>

\* line 123
ClosestReturn ==
    /\ icc_pc = "loop"
    /\ row_i = Len(coordinates_df.rows)
    /\ icc_pc' = "returned"
    /\ closest' = << min_distance_idx, min_distance >>
    /\ UNCHANGED << input_coordinates, coordinates_df, kilometers, row_i,
                    min_distance, min_distance_idx, icc_exception >>
    /\ UNCHANGED << rcw_all_vars, fdf_vars, rest_vars >>

\* the tables: each shape with up to MaxStations rows
StationTables ==
    { DataFrame(TableShapes[k], rows) :
        k \in 1..Len(TableShapes),
        rows \in UNION { [1..n -> Points] : n \in 0..MaxStations } }
      \cup { EmptyDataFrame }

\* the distances from point q: 0 for q itself, more than 0 for the others
DistancesFrom(q) ==
    { f \in [Points -> 0..MaxKm] : \A p \in Points : f[p] = 0 <=> p = q }

InitClosest ==
    /\ RequestIdle
    /\ AnnualIdle
    /\ OthersIdle("none")
    /\ FilterIdle
    /\ icc_pc = "entry"
    /\ input_coordinates \in Points \cup { << >> }
    /\ coordinates_df \in StationTables
    /\ kilometers \in DistancesFrom(input_coordinates)
    /\ row_i = 0
    /\ min_distance = Infinity
    /\ min_distance_idx = -1
    /\ closest = << -1, Infinity >>
    /\ icc_exception = ""

NextClosest ==
    \/ ClosestPrecheck
    \/ ClosestIterate
    \/ ClosestReturn

SpecClosest == InitClosest /\ [][NextClosest]_vars

(***************************************************************************)
(* filter_df_by_id_and_date                                                *)
(*                                                                         *)
(* A datetime is the tuple year, month, day, hour.  The row index that     *)
(* with_row_index adds is a polars UInt32, kept here as two halves of 16   *)
(* bits, so that index - 1 and index + 1 are computed at that width.       *)
(***************************************************************************)
\* the longest dataframe
MaxRows == 4

\* the timestamps of the rows: two years, two rows on one date, a date with
\* the day of another in a later month
Timestamps ==
    { << 2019, 1, 1, 0 >>, << 2019, 1, 2, 0 >>, << 2019, 1, 2, 12 >>,
      << 2019, 2, 2, 0 >>, << 2020, 1, 2, 0 >>, << 2020, 1, 3, 0 >> }
\* the values of the id column
Ids == { 1, 2 }
\* target_datetime: the target of the tests, and two others
TargetDatetimes ==
    { << 2000, 1, 2, 0 >>, << 2000, 1, 3, 0 >>, << 2000, 2, 2, 0 >> }

\* dt.month(), dt.day(), dt.date()
Month(ts) == ts[2]
Day(ts) == ts[3]
Date(ts) == << ts[1], ts[2], ts[3] >>
\* the order of datetimes
TsLess(a, b) ==
    \E k \in 1..4 : a[k] < b[k] /\ \A j \in 1..(k - 1) : a[j] = b[j]

\* UInt32 values and their arithmetic
Half == 2^16
UInt32(n) == [hi |-> (n \div Half) % Half, lo |-> n % Half]
UInt32Sub1(x) ==
    IF x.lo > 0 THEN [hi |-> x.hi, lo |-> x.lo - 1]
    ELSE [hi |-> (x.hi + Half - 1) % Half, lo |-> Half - 1]
UInt32Add1(x) ==
    IF x.lo < Half - 1 THEN [hi |-> x.hi, lo |-> x.lo + 1]
    ELSE [hi |-> (x.hi + 1) % Half, lo |-> 0]
\* x is the index of a row of a dataframe of n rows
InBounds(x, n) == x.hi = 0 /\ x.lo < n

\* the arguments output_colnames, id_colname, date_colname of the tests,
\* and output_colnames without one of the two columns
ColumnArguments ==
    << [output |-> << "timestamp", "id" >>, id |-> "id", date |-> "timestamp"],
       [output |-> << "timestamp" >>, id |-> "id", date |-> "timestamp"],
       [output |-> << "id" >>, id |-> "id", date |-> "timestamp"],
       [output |-> << >>, id |-> "id", date |-> "timestamp"],
       [output |-> << "timestamp", "aaa" >>, id |-> "id", date |-> "timestamp"],
       [output |-> << "timestamp", "id" >>, id |-> "aaa", date |-> "timestamp"],
       [output |-> << "timestamp", "id" >>, id |-> "id", date |-> "aaa"] >>

TimeSeriesShape ==
    [columns |-> << "timestamp", "id" >>, dtypes |-> << "Datetime", "Int64" >>]

\* the datetimes of S in ascending order
RECURSIVE Ascending(_)
Ascending(S) ==
    IF S = {} THEN << >>
    ELSE LET first == CHOOSE a \in S : \A b \in S : ~TsLess(b, a)
         IN << first >> \o Ascending(S \ {first})

\* the rows of one id, in ascending order of timestamp
Block(S, n) == [k \in 1..Cardinality(S) |-> << Ascending(S)[k], n >>]

\* the dataframes of up to MaxRows rows in which the rows of an id are on
\* consecutive rows and in ascending order of timestamp
TimeSeriesTables ==
    { DataFrame(TimeSeriesShape, Block(P[1], ab[1]) \o Block(P[2], ab[2])) :
        P \in { Q \in (SUBSET Timestamps) \X (SUBSET Timestamps) :
                  Cardinality(Q[1]) + Cardinality(Q[2]) <= MaxRows },
        ab \in { q \in Ids \X Ids : q[1] # q[2] } }
      \cup { EmptyDataFrame }


\* lines 222-231: the assertions all hold
FilterPrechecks ==
    /\ Len(df.rows) > 0
    /\ Len(output_colnames) > 0
    /\ HasColumn(df, id_colname)
    /\ HasColumn(df, date_colname)
    /\ \A k \in 1..Len(output_colnames) : HasColumn(df, output_colnames[k])
    /\ \E k \in 1..Len(df.rows) : Cell(df, df.rows[k], id_colname) = id

\* lines 237-246: with_row_index, filter and select; the date and the index
\* of the rows of the id with the month and day of target_datetime
IsTargetRow_AnyDay(row) ==
    /\ Cell(df, row, id_colname) = id
    /\ Month(Cell(df, row, date_colname)) = Month(target_datetime)

IsTargetRow(row) ==
    /\ Cell(df, row, id_colname) = id
    /\ Month(Cell(df, row, date_colname)) = Month(target_datetime)
    /\ Day(Cell(df, row, date_colname)) = Day(target_datetime)
WithRowIndex ==
    [k \in 1..Len(df.rows) |-> [row |-> df.rows[k], index |-> UInt32(k - 1)]]
SelectDateAndIndex(e) ==
    [date |-> Date(Cell(df, e.row, date_colname)), index |-> e.index]
TargetDateIdx ==
    LET kept == SelectSeq(WithRowIndex, LAMBDA e : IsTargetRow(e.row))
    IN [k \in 1..Len(kept) |-> SelectDateAndIndex(kept[k])]

\* line 248: is_sorted() of a UInt32 series
IsSorted(srs) ==
    \A k \in 1..(Len(srs) - 1) :
        \/ srs[k].hi < srs[k + 1].hi
        \/ srs[k].hi = srs[k + 1].hi /\ srs[k].lo <= srs[k + 1].lo

\* group_by(date).first() and .last(): the first and last index of each date
TargetDates(t) == { t[k].date : k \in 1..Len(t) }
GroupFirst(t, date) ==
    t[CHOOSE k \in 1..Len(t) :
        /\ t[k].date = date
        /\ \A j \in 1..(k - 1) : t[j].date # date].index
GroupLast(t, date) ==
    t[CHOOSE k \in 1..Len(t) :
        /\ t[k].date = date
        /\ \A j \in (k + 1)..Len(t) : t[j].date # date].index
\* lines 250-253: one index per date
PreTargetDateStartIdx(t) ==
    { UInt32Sub1(GroupFirst(t, date)) : date \in TargetDates(t) }
PostTargetDateEndIdx(t) ==
    { UInt32Add1(GroupLast(t, date)) : date \in TargetDates(t) }
\* group_by gives its groups in no particular order
Orders(S) ==
    { f \in [1..Cardinality(S) -> S] :
        \A a, b \in 1..Cardinality(S) : a # b => f[a] # f[b] }

\* line 258, select(output_colnames), of one row
Select(row) ==
    [k \in 1..Len(output_colnames) |-> Cell(df, row, output_colnames[k])]

\* rows without the first occurrence of row r
RemoveOne(rows, r) ==
    LET at == CHOOSE k \in 1..Len(rows) :
                  rows[k] = r /\ \A j \in 1..(k - 1) : rows[j] # r
    IN SubSeq(rows, 1, at - 1) \o SubSeq(rows, at + 1, Len(rows))

\* line 258, sort(date_colname), on column c: the arrangements of the rows
\* in ascending order, rows with equal dates in any order
RECURSIVE Sorted(_, _)
Sorted(rows, c) ==
    IF rows = << >> THEN { << >> }
    ELSE LET firsts == { rows[k] : k \in
                          { n \in 1..Len(rows) : \A j \in 1..Len(rows) :
                                ~TsLess(rows[j][c], rows[n][c]) } }
         IN UNION { { << r >> \o rest : rest \in Sorted(RemoveOne(rows, r), c) } :
                      r \in firsts }

\* the position of column name among output_colnames
OutputIndex(name) ==
    CHOOSE k \in 1..Len(output_colnames) : output_colnames[k] = name

FilterRaise(exc) ==
    /\ fdf_pc' = "raised"
    /\ fdf_exception' = exc
    /\ df1' = df1

\* lines 222-260
FilterCall ==
    /\ fdf_pc = "entry"
    /\ IF ~FilterPrechecks
       THEN FilterRaise("AssertionError") /\ idx_srs' = idx_srs
       ELSE LET t == TargetDateIdx
            IN IF ~IsSorted([k \in 1..Len(t) |-> t[k].index])
               THEN FilterRaise("AssertionError") /\ idx_srs' = idx_srs
               ELSE \E pre \in Orders(PreTargetDateStartIdx(t)),
                       post \in Orders(PostTargetDateEndIdx(t)) :
                      /\ idx_srs' = [k \in 1..Len(t) |-> t[k].index] \o pre \o post
                      /\ IF \E k \in 1..Len(idx_srs') :
                               ~InBounds(idx_srs'[k], Len(df.rows))
                         THEN FilterRaise("OutOfBoundsError")
                         ELSE IF \A k \in 1..Len(output_colnames) :
                                     output_colnames[k] # date_colname
                         THEN FilterRaise("ColumnNotFoundError")
                         ELSE \E sorted \in
                                 Sorted([k \in 1..Len(idx_srs') |->
                                            Select(df.rows[idx_srs'[k].lo + 1])],
                                        OutputIndex(date_colname)) :
                                /\ df1' = [columns |-> output_colnames,
                                           dtypes |-> [k \in 1..Len(output_colnames) |->
                                               df.dtypes[ColumnIndex(df, output_colnames[k])]],
                                           rows |-> sorted]
                                /\ fdf_pc' = "returned"
                                /\ fdf_exception' = fdf_exception
    /\ UNCHANGED << df, output_colnames, id, id_colname, date_colname,
                    target_datetime >>
    /\ UNCHANGED << rcw_all_vars, icc_vars, rest_vars >>

InitFilter ==
    /\ RequestIdle
    /\ AnnualIdle
    /\ OthersIdle("none")
    /\ ClosestIdle
    /\ fdf_pc = "entry"
    /\ df \in TimeSeriesTables
    /\ \E c \in 1..Len(ColumnArguments) :
          /\ output_colnames = ColumnArguments[c].output
          /\ id_colname = ColumnArguments[c].id
          /\ date_colname = ColumnArguments[c].date
    /\ id \in Ids
    /\ target_datetime \in TargetDatetimes
    /\ idx_srs = << >>
    /\ df1 = EmptyDataFrame
    /\ fdf_exception = ""

NextFilter == FilterCall

SpecFilter == InitFilter /\ [][NextFilter]_vars

(***************************************************************************)
(* get_historical_and_current_temperatures                                 *)
(*                                                                         *)
(* The two parquet files are values of the environment: catalog is the     *)
(* station table and archive the temperature file of the station that is   *)
(* resolved; a file that cannot be read makes pl.read_parquet raise.  The  *)
(* function runs identify_closest_coordinates, filter_df_by_id_and_date    *)
(* and request_current_weather through the actions above.                  *)
(***************************************************************************)
File(frame) == [exists |-> TRUE, frame |-> frame]
MissingFile == [exists |-> FALSE, frame |-> EmptyDataFrame]

str_XXX == << "X", "X", "X" >>
str_CHAMPAIGN == << "C", "H", "A", "M", "P", "A", "I", "G", "N", " ", "9", " ", "S", "W" >>

\* the columns of the station table of
\* test_get_historical_and_current_temperatures_02
StationShape ==
    [columns |-> << "usaf", "wban", "station_name", "st", "call", "lat",
                    "lon", "elev(m)" >>,
     dtypes |-> << "Int64", "Int64", "String", "String", "String", "Int64",
                   "Int64", "Int64" >>]
\* rows of the station table: the station of the tests, a station whose
\* call is null, and a station with an elevation above the bound of line 56
StationChampaign ==
    << 7220, 148, JStr(str_CHAMPAIGN), JStr(str_IL), JStr(str_XXX), 70, -160, 213 >>
StationNoCall ==
    << 7221, 149, JStr(str_Homer), JStr(str_IL), JNull, 71, -156, 10 >>
StationTooHigh ==
    << 7222, 150, JStr(str_Homer), JStr(str_IL), JStr(str_KILX), 34, -116, 9000 >>

\* the station tables the request may find
Catalogs ==
    << MissingFile,
       File(DataFrame(StationShape, << >>)),
       File(DataFrame(StationShape, << StationChampaign >>)),
       File(DataFrame(StationShape, << StationChampaign, StationNoCall >>)),
       File(DataFrame(StationShape, << StationNoCall, StationChampaign >>)),
       File(DataFrame(StationShape, << StationTooHigh >>)) >>

\* the columns of a temperature file, without and with the station column
TemperatureShape ==
    [columns |-> << "timestamp", "temperature" >>,
     dtypes |-> << "Datetime", "Int64" >>]
TemperatureStationShape ==
    [columns |-> << "timestamp", "temperature", "station" >>,
     dtypes |-> << "Datetime", "Int64", "Int64" >>]

\* the temperature files the request may find: none, no rows, the target
\* date inside the series, the target date on the first row, and a file of
\* another station
Archives ==
    << MissingFile,
       File(DataFrame(TemperatureShape, << >>)),
       File(DataFrame(TemperatureShape,
            << << << 2019, 1, 1, 0 >>, -15 >>, << << 2019, 1, 2, 0 >>, 0 >>,
               << << 2019, 1, 2, 12 >>, 25 >>, << << 2019, 2, 2, 0 >>, 100 >> >>)),
       File(DataFrame(TemperatureShape,
            << << << 2019, 1, 2, 0 >>, 0 >>, << << 2019, 1, 2, 12 >>, 25 >>,
               << << 2019, 2, 2, 0 >>, 100 >> >>)),
       File(DataFrame(TemperatureStationShape,
            << << << 2019, 1, 1, 0 >>, -15, 1 >>, << << 2019, 1, 2, 0 >>, 0, 1 >>,
               << << 2019, 2, 2, 0 >>, 100, 1 >> >>)) >>

\* the payloads of the live fetch of a request: one for each way it ends
LiveBodies ==
    [station |-> << StationFull, StationNoRadar, EmptyDict,
                    ProblemOfType(JStr(str_invalidPoint)),
                    ProblemOfType(JStr(str_NotFound)) >>,
     forecast |-> << ForecastOfTemperature(JNum(23)),
                     ForecastOfTemperature(JStr(str_abc)),
                     ForecastOfPeriods(JList(<< EmptyDict >>)) >>,
     operation |-> OperationBodies]

\* df[names]
SelectColumns(frame, names) ==
    [columns |-> names,
     dtypes |-> [k \in 1..Len(names) |-> frame.dtypes[ColumnIndex(frame, names[k])]],
     rows |-> [r \in 1..Len(frame.rows) |->
                  [k \in 1..Len(names) |-> Cell(frame, frame.rows[r], names[k])]]]
\* df[n, :], n from 0
RowFrame(frame, n) ==
    [columns |-> frame.columns, dtypes |-> frame.dtypes,
     rows |-> << frame.rows[n + 1] >>]
\* df.with_columns(pl.lit(value).alias(name)), name not a column of df
WithLiteralColumn(frame, name, value) ==
    [columns |-> Append(frame.columns, name),
     dtypes |-> Append(frame.dtypes, "Int64"),
     rows |-> [r \in 1..Len(frame.rows) |-> Append(frame.rows[r], value)]]

\* station_data[name][0]
StationValue(data, name) == Cell(data, data.rows[1], name)

\* int(str(a) + str(b)) for integers a and b that are not negative
RECURSIVE NumDigits(_)
NumDigits(n) == IF n < 10 THEN 1 ELSE 1 + NumDigits(n \div 10)
ConcatDecimal(a, b) == a * 10^NumDigits(b) + b

\* temperature / 10, as a number of tenths of a degree
Degrees(t) == [tenths |-> t]

\* lines 15-16: the bounds of the fields of Coordinates
CoordinatesValid(lat, lon) ==
    /\ -90 <= lat /\ lat <= 90
    /\ -180 <= lon /\ lon <= 180

\* a str of a length between lo and hi
IsStrOfLength(v, lo, hi) == v.t = "str" /\ lo <= Len(v.v) /\ Len(v.v) <= hi

\* a station call handed on as it is in the table
StationCallOf_Raw(data) == StationValue(data, "call")

\* lines 532-536: the station call string is sometimes received as a null
StationCallOf(data) ==
    LET call == StationValue(data, "call")
    IN IF call.t = "null" \/ call = JStr(str_empty) THEN JStr(str_empty) ELSE call

\* lines 538-555: the arguments of AnnualWeather
AnnualWeatherOf(cw, distance, temperatures, data) ==
    [current_temperature_celsius |-> cw.temperature_celsius,
     current_station |-> cw.radar_station,
     current_city |-> cw.coordinates_city,
     current_state |-> cw.coordinates_state,
     current_error_message |-> cw.error_message,
     distance_to_station_kilometers |-> distance,
     annual_timestamp |-> temperatures.timestamp,
     annual_temperature_celsius |-> temperatures.temperature,
     annual_usaf_station_id |-> StationValue(data, "usaf"),
     annual_wban_station_id |-> StationValue(data, "wban"),
     annual_station_name |-> StationValue(data, "station_name"),
     annual_station_state |-> StationValue(data, "st"),
     annual_station_call |-> StationCallOf(data),
     annual_station_latitude |-> StationValue(data, "lat"),
     annual_station_longitude |-> StationValue(data, "lon"),
     annual_station_elevation_meters |-> StationValue(data, "elev(m)")]

\* lines 30-56: the validation of the fields of AnnualWeather
AnnualWeatherValid(aw) ==
    /\ aw.current_station.t = "str"
    /\ aw.current_city.t = "str"
    /\ aw.current_state.t = "str"
    /\ ~aw.distance_to_station_kilometers.inf
    /\ 0 <= aw.distance_to_station_kilometers.km
    /\ aw.distance_to_station_kilometers.km <= 21000
    /\ 0 <= aw.annual_usaf_station_id /\ aw.annual_usaf_station_id < 1000000
    /\ 0 <= aw.annual_wban_station_id /\ aw.annual_wban_station_id < 100000
    /\ IsStrOfLength(aw.annual_station_name, 0, 100)
    /\ IsStrOfLength(aw.annual_station_state, 2, 2)
    /\ IsStrOfLength(aw.annual_station_call, 0, 4)
    /\ CoordinatesValid(aw.annual_station_latitude, aw.annual_station_longitude)
    /\ -440 <= aw.annual_station_elevation_meters
    /\ aw.annual_station_elevation_meters <= 8850

\* a request that goes on after a step has raised
Propagate_Swallow(failed, next) == next

\* an exception raised in a step is not caught: the request ends
Propagate(failed, next) == IF failed THEN "raised" ELSE next

\* the coordinates of the query handed on instead of those of the station
StationCoordinates_Query(data) == gh_coordinates

\* lines 521-523
StationCoordinates(data) ==
    Coordinates(StationValue(data, "lat"), StationValue(data, "lon"))

\* the variables of request_current_weather other than pc and the variables
\* of get_historical_and_current_temperatures other than gh_pc, gh_steps and
\* gh_exception
rcw_locals == << stage, max_attempts, sleep_duration, retry_counter, i,
                 response, rr_pc, ret, log, station_response, forecast_url,
                 forecast_response, current_weather, exception, args >>
gh_inputs == << gh_coordinates, catalog, archive, now >>

\* lines 472-473: get_station_df
AnnualLoadCatalog ==
    /\ gh_pc = "start"
    /\ gh_steps' = Append(gh_steps, "catalog")
    /\ gh_pc' = Propagate(~catalog.exists, "resolve")
    /\ gh_exception' = IF catalog.exists THEN gh_exception ELSE "FileNotFoundError"
    /\ station_df' = IF catalog.exists THEN catalog.frame ELSE station_df
    /\ UNCHANGED << gh_inputs, station_data, temperature_dict, annual_weather >>
    /\ UNCHANGED << rcw_all_vars, icc_vars, fdf_vars, external, coordinates, other_vars >>

\* lines 479-481: the call of identify_closest_coordinates
AnnualResolve ==
    /\ gh_pc = "resolve"
    /\ gh_steps' = Append(gh_steps, "resolve")
    /\ gh_pc' = "resolving"
    /\ input_coordinates' = << gh_coordinates.latitude, gh_coordinates.longitude >>
    /\ coordinates_df' = SelectColumns(station_df, << "lat", "lon" >>)
    /\ icc_pc' = "entry"
    /\ UNCHANGED << kilometers, row_i, min_distance, min_distance_idx, closest,
                    icc_exception >>
    /\ UNCHANGED << gh_inputs, station_df, station_data, temperature_dict,
                    annual_weather, gh_exception >>
    /\ UNCHANGED << rcw_all_vars, fdf_vars, external, coordinates, other_vars >>

\* lines 481-506 and 263-278: identify_closest_coordinates is over; the row
\* of the station, its temperature file, and the call of
\* filter_df_by_id_and_date
AnnualLoadArchive ==
    /\ gh_pc = "resolving"
    /\ icc_pc \in {"returned", "raised"}
    /\ IF icc_pc = "raised"
       THEN /\ gh_pc' = Propagate(TRUE, "window")
            /\ gh_exception' = icc_exception
            /\ UNCHANGED << gh_steps, station_data, fdf_vars >>
       ELSE LET data == RowFrame(station_df, closest[1])
                station_id == ConcatDecimal(StationValue(data, "usaf"),
                                            StationValue(data, "wban"))
                temperature_df ==
                    IF HasColumn(archive.frame, "station") THEN archive.frame
                    ELSE WithLiteralColumn(archive.frame, "station", station_id)
            IN
            /\ station_data' = data
            /\ gh_pc' = Propagate(~archive.exists, "window")
            /\ gh_exception' = IF archive.exists THEN gh_exception
                               ELSE "FileNotFoundError"
            /\ gh_steps' = IF archive.exists
                           THEN gh_steps \o << "archive", "window" >>
                           ELSE Append(gh_steps, "archive")
            /\ IF archive.exists
               THEN /\ fdf_pc' = "entry"
                    /\ df' = temperature_df
                    /\ output_colnames' = << "timestamp", "temperature" >>
                    /\ id' = station_id
                    /\ id_colname' = "station"
                    /\ date_colname' = "timestamp"
                    /\ target_datetime' = now
                    /\ UNCHANGED << idx_srs, df1, fdf_exception >>
               ELSE UNCHANGED fdf_vars
    /\ UNCHANGED << gh_inputs, station_df, temperature_dict, annual_weather >>
    /\ UNCHANGED << rcw_all_vars, icc_vars, external, coordinates, other_vars >>

\* lines 506-525: filter_df_by_id_and_date is over; the temperatures in
\* degrees, the coordinates of the station, and the call of
\* request_current_weather
AnnualStartLive ==
    /\ gh_pc = "window"
    /\ fdf_pc \in {"returned", "raised"}
    /\ IF fdf_pc = "raised"
       THEN /\ gh_pc' = Propagate(TRUE, "live")
            /\ gh_exception' = fdf_exception
            /\ UNCHANGED << gh_steps, temperature_dict, coordinates, pc >>
       ELSE LET station_coordinates == StationCoordinates(station_data)
                valid == CoordinatesValid(station_coordinates.latitude,
                                          station_coordinates.longitude)
            IN
            /\ temperature_dict' =
                  [timestamp |-> [k \in 1..Len(df1.rows) |-> df1.rows[k][1]],
                   temperature |-> [k \in 1..Len(df1.rows) |-> Degrees(df1.rows[k][2])]]
            /\ gh_pc' = Propagate(~valid, "live")
            /\ gh_exception' = IF valid THEN gh_exception ELSE "ValidationError"
            /\ gh_steps' = IF valid THEN Append(gh_steps, "live") ELSE gh_steps
            /\ coordinates' = IF valid THEN station_coordinates ELSE coordinates
            /\ pc' = IF valid THEN "start" ELSE pc
    /\ UNCHANGED << gh_inputs, station_df, station_data, annual_weather >>
    /\ UNCHANGED << rcw_locals, icc_vars, fdf_vars, external, other_vars >>

\* lines 525-557: request_current_weather is over; the AnnualWeather
AnnualConstruct ==
    /\ gh_pc = "live"
    /\ pc \in {"returned", "raised"}
    /\ IF pc = "raised"
       THEN /\ gh_pc' = Propagate(TRUE, "returned")
            /\ gh_exception' = exception
            /\ UNCHANGED << gh_steps, annual_weather >>
       ELSE LET aw == AnnualWeatherOf(current_weather, closest[2],
                                      temperature_dict, station_data)
            IN
            /\ gh_steps' = Append(gh_steps, "construct")
            /\ gh_pc' = Propagate(~AnnualWeatherValid(aw), "returned")
            /\ gh_exception' = IF AnnualWeatherValid(aw) THEN gh_exception
                               ELSE "ValidationError"
            /\ annual_weather' = IF AnnualWeatherValid(aw) THEN aw
                                 ELSE annual_weather
    /\ UNCHANGED << gh_inputs, station_df, station_data, temperature_dict >>
    /\ UNCHANGED << rcw_all_vars, icc_vars, fdf_vars, external, coordinates, other_vars >>

\* the times at which the request may be made
Nows == { << 2024, 1, 2, 9 >>, << 2024, 2, 2, 9 >> }

InitAnnual ==
    /\ RequestIdleWith(LiveBodies)
    /\ FilterIdle
    /\ icc_pc = "idle"
    /\ input_coordinates = << >>
    /\ coordinates_df = EmptyDataFrame
    /\ kilometers \in [Points -> 1..MaxKm]
    /\ row_i = 0
    /\ min_distance = Infinity
    /\ min_distance_idx = -1
    /\ closest = << -1, Infinity >>
    /\ icc_exception = ""
    /\ gh_pc = "start"
    /\ gh_coordinates \in QueryCoordinates
    /\ \E c \in 1..Len(Catalogs) : catalog = Catalogs[c]
    /\ \E a \in 1..Len(Archives) : archive = Archives[a]
    /\ now \in Nows
    /\ station_df = EmptyDataFrame
    /\ station_data = << >>
    /\ temperature_dict = << >>
    /\ annual_weather = << >>
    /\ gh_exception = ""
    /\ gh_steps = << >>
    /\ OthersIdle("annual")

NextAnnual ==
    \/ AnnualLoadCatalog
    \/ AnnualResolve
    \/ ClosestPrecheck
    \/ ClosestIterate
    \/ ClosestReturn
    \/ AnnualLoadArchive
    \/ FilterCall
    \/ AnnualStartLive
    \/ CallStation
    \/ RetryStep
    \/ HandleStation
    \/ HandleForecast
    \/ AnnualConstruct

SpecAnnual == InitAnnual /\ [][NextAnnual]_vars

(***************************************************************************)
(* The batch loop of main in src/src/step02_download/download_isd_lite.py  *)
(*                                                                         *)
(* file_urls and to_download_filepaths are lists of the same length, of    *)
(* which the loop reads the indexes only: the files are the numbers        *)
(* 0..file_n - 1.  A download that comes back empty is not written.        *)
(***************************************************************************)
\* the longest list of files to download
MaxFiles == 26

batch_size == 12
initial_time_delay == 15
time_delay_increment == 15

\* list(range(0, n, step))
Range(n, step) == [k \in 1..((n + step - 1) \div step) |-> (k - 1) * step]

\* lines 213-215: idxs[-1] of an empty list raises IndexError
BatchIndexes(n) ==
    LET r == Range(n, batch_size) IN
    IF r = << >> THEN Raised("IndexError")
    ELSE IF r[Len(r)] < n - 1 THEN Value(Append(r, n - 1))
    ELSE Value(r)

\* file_urls[start_idx:end_idx]: the indexes of the slice
Slice(start_idx, end_idx) == { k \in 0..(file_n - 1) : start_idx <= k /\ k < end_idx }

\* the downloads of a batch that may come back empty: none, the first, all
\* but the first, all
EmptyDownloads(batch) ==
    LET first == { k \in batch : \A j \in batch : k <= j } IN
    { {}, first, batch \ first, batch }

\* line 121 and line 229: empty_download_n / len(downloads) > 0.5
MostlyEmpty(empty_download_n, downloads_n) == 2 * empty_download_n > downloads_n

\* lines 223-227: the slice of the iteration the loop is in
CurrentBatch == Slice(idxs[dl_i + 1], idxs[dl_i + 2])

\* lines 211-218
DownloadIndexes ==
    /\ dl_pc = "start"
    /\ LET found == BatchIndexes(file_n) IN
       IF found.raised
       THEN /\ dl_pc' = "raised"
            /\ dl_exception' = found.exc
            /\ UNCHANGED << idxs, time_delay >>
       ELSE /\ dl_pc' = "loop"
            /\ idxs' = found.v
            /\ time_delay' = initial_time_delay
            /\ dl_exception' = dl_exception
    /\ UNCHANGED << file_n, dl_i, batches, saved, slept, tasks, downloads, save_i >>
    /\ UNCHANGED << rcw_all_vars, icc_vars, fdf_vars, external, coordinates,
                    gh_vars, endpoint, parked, overlapped >>

\* lines 220-227, 110 and 46-49: the head of an iteration; the slices are
\* handed to download_and_save_urls, whose asyncio.run creates one task for
\* each url
DownloadBatch ==
    /\ dl_pc = "loop"
    /\ dl_i < Len(idxs) - 1
    /\ batches' = Append(batches, CurrentBatch)
    /\ tasks' = 0
    /\ downloads' = << >>
    /\ dl_pc' = "request"
    /\ UNCHANGED << file_n, idxs, dl_i, time_delay, saved, slept, dl_exception,
                    save_i >>
    /\ UNCHANGED << rcw_all_vars, icc_vars, fdf_vars, external, coordinates,
                    gh_vars, endpoint, parked, overlapped >>

\* lines 25 and 48: the next task runs up to its session.get, where it is
\* suspended; the tasks are begun in the order of the urls
DownloadGet ==
    /\ dl_pc = "request"
    /\ tasks < Cardinality(CurrentBatch)
    /\ tasks' = tasks + 1
    /\ UNCHANGED << dl_pc, file_n, idxs, dl_i, time_delay, batches, saved, slept,
                    dl_exception, downloads, save_i >>
    /\ UNCHANGED << rcw_all_vars, icc_vars, fdf_vars, external, coordinates,
                    gh_vars, endpoint, parked, overlapped >>

\* lines 25-36, 50 and 110-114: every request is answered and gather gives
\* the contents in the order of the urls; downloads[k] tells whether the
\* content of file k is not empty
DownloadGather ==
    /\ dl_pc = "request"
    /\ tasks = Cardinality(CurrentBatch)
    /\ \E empty \in EmptyDownloads(CurrentBatch) :
          downloads' = [k \in CurrentBatch |-> k \notin empty]
    /\ save_i' = 0
    /\ dl_pc' = "save"
    /\ UNCHANGED << file_n, idxs, dl_i, time_delay, batches, saved, slept,
                    dl_exception, tasks >>
    /\ UNCHANGED << rcw_all_vars, icc_vars, fdf_vars, external, coordinates,
                    gh_vars, endpoint, parked, overlapped >>

\* lines 116-119 and 101-104: one iteration of the loop over downloads; a
\* content that is not empty is written to its file
DownloadSave ==
    /\ dl_pc = "save"
    /\ save_i < Cardinality(CurrentBatch)
    /\ LET k == idxs[dl_i + 1] + save_i IN
       saved' = IF downloads[k] THEN saved \cup {k} ELSE saved
    /\ save_i' = save_i + 1
    /\ UNCHANGED << dl_pc, file_n, idxs, dl_i, time_delay, batches, slept,
                    dl_exception, tasks, downloads >>
    /\ UNCHANGED << rcw_all_vars, icc_vars, fdf_vars, external, coordinates,
                    gh_vars, endpoint, parked, overlapped >>

\* lines 121-123 and 229-231: the loop over downloads is over; the
\* proportion of empty downloads, the delay, and the call of time.sleep
DownloadDelay ==
    /\ dl_pc = "save"
    /\ save_i = Cardinality(CurrentBatch)
    /\ IF CurrentBatch = {}
       THEN /\ dl_pc' = "raised"
            /\ dl_exception' = "ZeroDivisionError"
            /\ UNCHANGED << time_delay, slept >>
       ELSE LET empty_download_n ==
                    Cardinality({ k \in CurrentBatch : ~downloads[k] })
            IN
            /\ time_delay' =
                  IF MostlyEmpty(empty_download_n, Cardinality(CurrentBatch))
                  THEN time_delay + time_delay_increment ELSE time_delay
            /\ slept' = Append(slept, time_delay')
            /\ dl_pc' = "sleep"
            /\ dl_exception' = dl_exception
    /\ UNCHANGED << file_n, idxs, dl_i, batches, saved, tasks, downloads, save_i >>
    /\ UNCHANGED << rcw_all_vars, icc_vars, fdf_vars, external, coordinates,
                    gh_vars, endpoint, parked, overlapped >>

\* lines 231 and 220: time.sleep returns and the loop goes on
DownloadWake ==
    /\ dl_pc = "sleep"
    /\ dl_i' = dl_i + 1
    /\ dl_pc' = "loop"
    /\ UNCHANGED << file_n, idxs, time_delay, batches, saved, slept,
                    dl_exception, tasks, downloads, save_i >>
    /\ UNCHANGED << rcw_all_vars, icc_vars, fdf_vars, external, coordinates,
                    gh_vars, endpoint, parked, overlapped >>

\* line 220: range(loop_len) is exhausted
DownloadEnd ==
    /\ dl_pc = "loop"
    /\ dl_i = Len(idxs) - 1
    /\ dl_pc' = "done"
    /\ UNCHANGED << file_n, idxs, dl_i, time_delay, batches, saved, slept,
                    dl_exception, tasks, downloads, save_i >>
    /\ UNCHANGED << rcw_all_vars, icc_vars, fdf_vars, external, coordinates,
                    gh_vars, endpoint, parked, overlapped >>

InitDownload ==
    /\ RequestIdle
    /\ ClosestIdle
    /\ FilterIdle
    /\ AnnualIdle
    /\ dl_pc = "start"
    /\ file_n \in 0..MaxFiles
    /\ idxs = << >>
    /\ dl_i = 0
    /\ time_delay = 0
    /\ batches = << >>
    /\ saved = {}
    /\ slept = << >>
    /\ dl_exception = ""
    /\ tasks = 0
    /\ downloads = << >>
    /\ save_i = 0
    /\ endpoint = "none"
    /\ parked = << >>
    /\ overlapped = FALSE

NextDownload ==
    \/ DownloadIndexes
    \/ DownloadBatch
    \/ DownloadGet
    \/ DownloadGather
    \/ DownloadSave
    \/ DownloadDelay
    \/ DownloadWake
    \/ DownloadEnd

SpecDownload == InitDownload /\ [][NextDownload]_vars

(***************************************************************************)
(* Two requests at a time                                                  *)
(*                                                                         *)
(* get_historical_and_current_temperatures is a `def` endpoint, which      *)
(* FastAPI runs in a thread of its pool, and get_current_temperature an    *)
(* `async def` endpoint, which runs on the event loop and, as it never     *)
(* awaits, to its end once begun.  Every variable of the functions of      *)
(* api.py is a local or an argument: each request has its own.  The model  *)
(* keeps the variables of the request that is running in the variables of  *)
(* the actions above and those of the other request in parked; Switch      *)
(* hands the processor to the other request.  The responses, the distances *)
(* and the temperature file a request finds belong to the request; the     *)
(* station table is one file, read by both.                                *)
(***************************************************************************)
\* the variables of the running request
Running ==
    [pc                |-> pc,
     stage             |-> stage,
     max_attempts      |-> max_attempts,
     sleep_duration    |-> sleep_duration,
     retry_counter     |-> retry_counter,
     i                 |-> i,
     response          |-> response,
     rr_pc             |-> rr_pc,
     ret               |-> ret,
     log               |-> log,
     station_response  |-> station_response,
     forecast_url      |-> forecast_url,
     forecast_response |-> forecast_response,
     current_weather   |-> current_weather,
     exception         |-> exception,
     args              |-> args,
     icc_pc            |-> icc_pc,
     input_coordinates |-> input_coordinates,
     coordinates_df    |-> coordinates_df,
     kilometers        |-> kilometers,
     row_i             |-> row_i,
     min_distance      |-> min_distance,
     min_distance_idx  |-> min_distance_idx,
     closest           |-> closest,
     icc_exception     |-> icc_exception,
     fdf_pc            |-> fdf_pc,
     df                |-> df,
     output_colnames   |-> output_colnames,
     id                |-> id,
     id_colname        |-> id_colname,
     date_colname      |-> date_colname,
     target_datetime   |-> target_datetime,
     idx_srs           |-> idx_srs,
     df1               |-> df1,
     fdf_exception     |-> fdf_exception,
     external          |-> external,
     coordinates       |-> coordinates,
     gh_pc             |-> gh_pc,
     gh_coordinates    |-> gh_coordinates,
     archive           |-> archive,
     now               |-> now,
     station_df        |-> station_df,
     station_data      |-> station_data,
     temperature_dict  |-> temperature_dict,
     annual_weather    |-> annual_weather,
     gh_exception      |-> gh_exception,
     gh_steps          |-> gh_steps,
     endpoint          |-> endpoint]

\* a request of endpoint current_temperature that has not begun
CurrentRequest(query, bodies) ==
    LET ep == "current"
        distances == << >>
        file == EmptyDataFrame
        time == << >>
    IN
    [pc                |-> "start",
     stage             |-> "",
     max_attempts      |-> retry_n,
     sleep_duration    |-> retry_delay,
     retry_counter     |-> retry_n,
     i                 |-> 0,
     response          |-> NoResponse,
     rr_pc             |-> "idle",
     ret               |-> ReturnedNone,
     log               |-> << >>,
     station_response  |-> NoResponse,
     forecast_url      |-> JNull,
     forecast_response |-> NoResponse,
     current_weather   |-> CurrentWeather(FALSE),
     exception         |-> "",
     args              |-> << >>,
     icc_pc            |-> "idle",
     input_coordinates |-> << >>,
     coordinates_df    |-> EmptyDataFrame,
     kilometers        |-> distances,
     row_i             |-> 0,
     min_distance      |-> Infinity,
     min_distance_idx  |-> -1,
     closest           |-> << -1, Infinity >>,
     icc_exception     |-> "",
     fdf_pc            |-> "idle",
     df                |-> EmptyDataFrame,
     output_colnames   |-> << >>,
     id                |-> 0,
     id_colname        |-> "",
     date_colname      |-> "",
     target_datetime   |-> << >>,
     idx_srs           |-> << >>,
     df1               |-> EmptyDataFrame,
     fdf_exception     |-> "",
     external          |-> bodies,
     coordinates       |-> query,
     gh_pc             |-> "idle",
     gh_coordinates    |-> Coordinates(0, 0),
     archive           |-> file,
     now               |-> time,
     station_df        |-> EmptyDataFrame,
     station_data      |-> << >>,
     temperature_dict  |-> << >>,
     annual_weather    |-> << >>,
     gh_exception      |-> "",
     gh_steps          |-> << >>,
     endpoint          |-> ep]

\* a request of endpoint annual_temperature that has not begun
AnnualRequest(query, bodies, distances, file, time) ==
    LET ep == "annual" IN
    [pc                |-> "idle",
     stage             |-> "",
     max_attempts      |-> retry_n,
     sleep_duration    |-> retry_delay,
     retry_counter     |-> retry_n,
     i                 |-> 0,
     response          |-> NoResponse,
     rr_pc             |-> "idle",
     ret               |-> ReturnedNone,
     log               |-> << >>,
     station_response  |-> NoResponse,
     forecast_url      |-> JNull,
     forecast_response |-> NoResponse,
     current_weather   |-> CurrentWeather(FALSE),
     exception         |-> "",
     args              |-> << >>,
     icc_pc            |-> "idle",
     input_coordinates |-> << >>,
     coordinates_df    |-> EmptyDataFrame,
     kilometers        |-> distances,
     row_i             |-> 0,
     min_distance      |-> Infinity,
     min_distance_idx  |-> -1,
     closest           |-> << -1, Infinity >>,
     icc_exception     |-> "",
     fdf_pc            |-> "idle",
     df                |-> EmptyDataFrame,
     output_colnames   |-> << >>,
     id                |-> 0,
     id_colname        |-> "",
     date_colname      |-> "",
     target_datetime   |-> << >>,
     idx_srs           |-> << >>,
     df1               |-> EmptyDataFrame,
     fdf_exception     |-> "",
     external          |-> bodies,
     coordinates       |-> Coordinates(0, 0),
     gh_pc             |-> "start",
     gh_coordinates    |-> query,
     archive           |-> file,
     now               |-> time,
     station_df        |-> EmptyDataFrame,
     station_data      |-> << >>,
     temperature_dict  |-> << >>,
     annual_weather    |-> << >>,
     gh_exception      |-> "",
     gh_steps          |-> << >>,
     endpoint          |-> ep]

\* where a request is: not begun, under way, or over
IsOver(request) ==
    IF request.endpoint = "current" THEN request.pc \in {"returned", "raised"}
    ELSE request.gh_pc \in {"returned", "raised"}
HasBegun(request) ==
    IF request.endpoint = "current" THEN request.pc # "start"
    ELSE request.gh_pc # "start"
MidRun(request) == HasBegun(request) /\ ~IsOver(request)

\* a request that finds in current_weather what the other request left there
Resume_SharedWeather(own, interrupted) ==
    [own EXCEPT !.current_weather = interrupted.current_weather]

\* the variables a request has when it goes on: its own, as it left them
Resume(own, interrupted) == own

\* the other request runs from here on; two requests of the event loop
\* change places only when the running one is not under way
Switch ==
    /\ parked # << >>
    /\ (endpoint = "current" /\ parked.endpoint = "current") => ~MidRun(Running)
    /\ LET resumed == Resume(parked, Running) IN
       /\ pc' = resumed.pc
       /\ stage' = resumed.stage
       /\ max_attempts' = resumed.max_attempts
       /\ sleep_duration' = resumed.sleep_duration
       /\ retry_counter' = resumed.retry_counter
       /\ i' = resumed.i
       /\ response' = resumed.response
       /\ rr_pc' = resumed.rr_pc
       /\ ret' = resumed.ret
       /\ log' = resumed.log
       /\ station_response' = resumed.station_response
       /\ forecast_url' = resumed.forecast_url
       /\ forecast_response' = resumed.forecast_response
       /\ current_weather' = resumed.current_weather
       /\ exception' = resumed.exception
       /\ args' = resumed.args
       /\ icc_pc' = resumed.icc_pc
       /\ input_coordinates' = resumed.input_coordinates
       /\ coordinates_df' = resumed.coordinates_df
       /\ kilometers' = resumed.kilometers
       /\ row_i' = resumed.row_i
       /\ min_distance' = resumed.min_distance
       /\ min_distance_idx' = resumed.min_distance_idx
       /\ closest' = resumed.closest
       /\ icc_exception' = resumed.icc_exception
       /\ fdf_pc' = resumed.fdf_pc
       /\ df' = resumed.df
       /\ output_colnames' = resumed.output_colnames
       /\ id' = resumed.id
       /\ id_colname' = resumed.id_colname
       /\ date_colname' = resumed.date_colname
       /\ target_datetime' = resumed.target_datetime
       /\ idx_srs' = resumed.idx_srs
       /\ df1' = resumed.df1
       /\ fdf_exception' = resumed.fdf_exception
       /\ external' = resumed.external
       /\ coordinates' = resumed.coordinates
       /\ gh_pc' = resumed.gh_pc
       /\ gh_coordinates' = resumed.gh_coordinates
       /\ archive' = resumed.archive
       /\ now' = resumed.now
       /\ station_df' = resumed.station_df
       /\ station_data' = resumed.station_data
       /\ temperature_dict' = resumed.temperature_dict
       /\ annual_weather' = resumed.annual_weather
       /\ gh_exception' = resumed.gh_exception
       /\ gh_steps' = resumed.gh_steps
       /\ endpoint' = resumed.endpoint
    /\ parked' = Running
    /\ overlapped' = (overlapped \/ (MidRun(Running) /\ MidRun(parked)))
    /\ UNCHANGED << catalog, dl_vars >>

\* the payloads of the two requests
ConcurrentBodies ==
    [station |-> << StationFull, ProblemOfType(JStr(str_invalidPoint)) >>,
     forecast |-> << ForecastOfTemperature(JNum(23)) >>,
     operation |-> OperationBodies]

\* distances from a query near the first and near the second station
NearChampaign == [p \in Points |-> IF p = << 70, -160 >> THEN 1 ELSE 2]
NearHomer == [p \in Points |-> IF p = << 71, -156 >> THEN 1 ELSE 2]

\* the requests that may arrive together
ConcurrentRequests ==
    << CurrentRequest(Coordinates(40, -88), ConcurrentBodies),
       AnnualRequest(Coordinates(40, -88), ConcurrentBodies, NearChampaign,
                     Archives[3], << 2024, 1, 2, 9 >>),
       AnnualRequest(Coordinates(40, 88), ConcurrentBodies, NearHomer,
                     Archives[4], << 2024, 2, 2, 9 >>),
       AnnualRequest(Coordinates(40, 88), ConcurrentBodies, NearHomer,
                     Archives[1], << 2024, 2, 2, 9 >>),
       AnnualRequest(Coordinates(40, 88), ConcurrentBodies, NearHomer,
                     Archives[3], << 2024, 1, 2, 9 >>) >>

InitConcurrent ==
    /\ \E a \in 1..Len(ConcurrentRequests) :
         LET first == ConcurrentRequests[a] IN
         /\ pc = first.pc
         /\ stage = first.stage
         /\ max_attempts = first.max_attempts
         /\ sleep_duration = first.sleep_duration
         /\ retry_counter = first.retry_counter
         /\ i = first.i
         /\ response = first.response
         /\ rr_pc = first.rr_pc
         /\ ret = first.ret
         /\ log = first.log
         /\ station_response = first.station_response
         /\ forecast_url = first.forecast_url
         /\ forecast_response = first.forecast_response
         /\ current_weather = first.current_weather
         /\ exception = first.exception
         /\ args = first.args
         /\ icc_pc = first.icc_pc
         /\ input_coordinates = first.input_coordinates
         /\ coordinates_df = first.coordinates_df
         /\ kilometers = first.kilometers
         /\ row_i = first.row_i
         /\ min_distance = first.min_distance
         /\ min_distance_idx = first.min_distance_idx
         /\ closest = first.closest
         /\ icc_exception = first.icc_exception
         /\ fdf_pc = first.fdf_pc
         /\ df = first.df
         /\ output_colnames = first.output_colnames
         /\ id = first.id
         /\ id_colname = first.id_colname
         /\ date_colname = first.date_colname
         /\ target_datetime = first.target_datetime
         /\ idx_srs = first.idx_srs
         /\ df1 = first.df1
         /\ fdf_exception = first.fdf_exception
         /\ external = first.external
         /\ coordinates = first.coordinates
         /\ gh_pc = first.gh_pc
         /\ gh_coordinates = first.gh_coordinates
         /\ archive = first.archive
         /\ now = first.now
         /\ station_df = first.station_df
         /\ station_data = first.station_data
         /\ temperature_dict = first.temperature_dict
         /\ annual_weather = first.annual_weather
         /\ gh_exception = first.gh_exception
         /\ gh_steps = first.gh_steps
         /\ endpoint = first.endpoint
    /\ \E b \in 1..Len(ConcurrentRequests) : parked = ConcurrentRequests[b]
    /\ \E c \in {1, 4} : catalog = Catalogs[c]
    /\ overlapped = FALSE
    /\ DownloadIdle

NextConcurrent ==
    \/ Switch
    \/ AnnualLoadCatalog
    \/ AnnualResolve
    \/ ClosestPrecheck
    \/ ClosestIterate
    \/ ClosestReturn
    \/ AnnualLoadArchive
    \/ FilterCall
    \/ AnnualStartLive
    \/ CallStation
    \/ RetryStep
    \/ HandleStation
    \/ HandleForecast
    \/ AnnualConstruct

SpecConcurrent == InitConcurrent /\ [][NextConcurrent]_vars

(***************************************************************************)
(* Claims about retry_request, checked under SpecRetry                     *)
(***************************************************************************)
NumCalls == Cardinality(CallsOf(stage))
NumSleeps == Cardinality(SleepsOf(stage))
AllCallsFailed == \A p \in CallsOf(stage) : ~log[p].ok

\* C1: when the k-th invocation is the first to return an ok response, it is
\* the last event of the run (exactly k invocations, no invocation or delay
\* after it), k is at most max_attempts, and once retry_request has returned
\* the returned response is that k-th response.
Thm_C1_StopsAtFirstOk ==
    \A p \in CallsOf(stage) :
        log[p].ok =>
            /\ p = Len(log)
            /\ \A q \in CallsOf(stage) : q < p => ~log[q].ok
            /\ NumCalls <= max_attempts
            /\ rr_pc \in {"check", "done"}
            /\ rr_pc = "done" =>
                  /\ ~ret.none
                  /\ ret.response.ok
                  /\ ret.response.id = log[p].id
                  /\ ret.response = response

\* retry_request has returned the ok response of its second invocation
Wit_C1_SecondCallOk ==
    /\ rr_pc = "done"
    /\ max_attempts >= 3
    /\ NumCalls = 2
    /\ log[Len(log)].op = "call"
    /\ log[Len(log)].ok
    /\ ~ret.none
    /\ ret.response.id = log[Len(log)].id

\* C2: with max_attempts n >= 1 and no ok response, retry_request returns
\* after exactly n invocations, and returns the response of the n-th.
Thm_C2_ExhaustedReturnsLast ==
    (rr_pc = "done" /\ max_attempts >= 1 /\ AllCallsFailed) =>
        /\ NumCalls = max_attempts
        /\ log[Len(log)].op = "call"
        /\ ~ret.none
        /\ ~ret.response.ok
        /\ ret.response.id = log[Len(log)].id
        /\ \A q \in CallsOf(stage) : q < Len(log) => ret.response.id # log[q].id

\* three failed invocations, and the third response returned
Wit_C2_ThreeFailures ==
    /\ rr_pc = "done"
    /\ max_attempts = 3
    /\ AllCallsFailed
    /\ NumCalls = 3
    /\ ~ret.none
    /\ ret.response.id = log[Len(log)].id

\* C3: the second element of the returned pair is the number of invocations
\* made.  The code returns the loop index, one less than that number.
CE_C3_AttemptsUsedIsCallCount ==
    (rr_pc = "done" /\ ~ret.none) => ret.attempts = NumCalls

\* C4: with max_attempts below 1, retry_request makes no invocation and
\* returns a (response, attempts_used) pair.  The code makes no invocation
\* and returns None.
CE_C4_BelowOneReturnsPair ==
    (rr_pc = "done" /\ max_attempts < 1) => (NumCalls = 0 /\ ~ret.none)

\* C5: every delay lasts sleep_duration and directly follows a failed
\* invocation that is not the last allowed one; once the loop has moved past
\* a failed invocation that is not the last allowed one, a delay follows it;
\* no delay follows an ok invocation or the last allowed one; so a finished
\* run of m >= 1 invocations holds exactly m - 1 delays.
Thm_C5_DelayBetweenAttempts ==
    /\ \A p \in SleepsOf(stage) :
          /\ log[p].dur = sleep_duration
          /\ p > 1
          /\ log[p - 1].op = "call"
          /\ ~log[p - 1].ok
          /\ Cardinality({q \in CallsOf(stage) : q < p}) < max_attempts
    /\ \A p \in CallsOf(stage) :
          LET nth == Cardinality({q \in CallsOf(stage) : q <= p}) IN
          /\ (~log[p].ok /\ nth < max_attempts /\ (p < Len(log) \/ rr_pc # "check"))
                => (p < Len(log) /\ log[p + 1].op = "sleep")
          /\ (log[p].ok \/ nth >= max_attempts) => p = Len(log)
    /\ (rr_pc = "done" /\ NumCalls >= 1) => NumSleeps = NumCalls - 1

\* a finished run of three invocations with its two delays
Wit_C5_TwoDelays ==
    /\ rr_pc = "done"
    /\ NumCalls = 3
    /\ NumSleeps = 2
    /\ sleep_duration > 0
    /\ \A p \in SleepsOf(stage) : log[p].dur = sleep_duration

(***************************************************************************)
(* Claims about request_current_weather, checked under Spec                *)
(***************************************************************************)
Finished == pc \in {"returned", "raised"}
StationCalls == CallsOf("station")
ForecastCalls == CallsOf("forecast")
\* retry_request on the station lookup has returned a response
StationStageOver == pc \in {"forecast", "returned", "raised"} /\ station_response.id > 0
\* retry_request on the forecast has returned a response
ForecastStageOver == Finished /\ forecast_response.id > 0

\* what the claims say of a payload, read off the payload itself
HasForecastUrl(body) ==
    /\ body.t = "dict"
    /\ "properties" \in DOMAIN body.v
    /\ body.v.properties.t = "dict"
    /\ "forecast" \in DOMAIN body.v.properties.v
TypeNamesInvalidPoint(body) ==
    /\ body.t = "dict"
    /\ "type" \in DOMAIN body.v
    /\ body.v.type.t = "str"
    /\ \E a \in 1..Len(body.v.type.v) :
          /\ a + 11 <= Len(body.v.type.v)
          /\ \A k \in 0..11 :
                body.v.type.v[a + k] \in
                    {str_invalidpoint[k + 1], str_INVALIDPOINT[k + 1]}
SentinelTemperature == default_temperature_celsius * CelsiusDenominator
EmptyLocation(cw) ==
    /\ cw.radar_station = JStr(str_empty)
    /\ cw.coordinates_city = JStr(str_empty)
    /\ cw.coordinates_state = JStr(str_empty)

\* C6: request_current_weather never raises, whatever the station and
\* forecast responses are.  The code raises on a station response that is not
\* ok and carries no str `type`, and on a temperature that is not a number.
CE_C6_NeverRaises == pc # "raised"

\* C7: the forecast endpoint is called only once the station lookup has
\* returned an ok response from which the forecast URL was extracted, after
\* every station call; a run whose station lookup ended not ok or without
\* the URL finishes with no forecast call.
Thm_C7_ForecastOnlyAfterStation ==
    /\ ForecastCalls # {} =>
          /\ StationStageOver
          /\ station_response.ok
          /\ HasForecastUrl(station_response.body)
          /\ forecast_url = station_response.body.v.properties.v.forecast
          /\ \A p \in StationCalls, q \in ForecastCalls : p < q
          /\ \E p \in StationCalls :
                /\ log[p].ok
                /\ log[p].id = station_response.id
                /\ \A q \in ForecastCalls : p < q
    /\ (StationStageOver
        /\ (~station_response.ok \/ ~HasForecastUrl(station_response.body)))
          => (Finished /\ ForecastCalls = {})

\* the forecast was requested after the station lookup needed a retry
Wit_C7_ForecastAfterRetriedStation ==
    /\ Cardinality(StationCalls) = 2
    /\ Cardinality(ForecastCalls) >= 1
    /\ station_response.ok
    /\ HasForecastUrl(station_response.body)

\* C8: when the final station response is not ok, the result is valid=false
\* with invalid_input_coordinates if the payload's type contains
\* 'invalidpoint' in any case and invalid_weather_api_response for every
\* other payload, the temperature at the sentinel.  The code raises on the
\* payloads without a str `type`.
CE_C8_StationNotOkMessage ==
    (StationStageOver /\ ~station_response.ok) =>
        /\ pc = "returned"
        /\ ~current_weather.valid_response
        /\ current_weather.error_message =
              IF TypeNamesInvalidPoint(station_response.body)
              THEN invalid_input_coordinates_message
              ELSE invalid_weather_api_response_message
        /\ current_weather.temperature_celsius = SentinelTemperature

\* C9 as stated: an ok station response without the forecast URL gives
\* valid=false, forecast_url_missing and defaults elsewhere, after exactly
\* one station-lookup call.
CE_C9_UrlMissingAfterOneCall ==
    (StationStageOver /\ station_response.ok
     /\ ~HasForecastUrl(station_response.body)) =>
        /\ pc = "returned"
        /\ current_weather = [CurrentWeather(FALSE) EXCEPT
                                 !.error_message = forecast_url_missing_message]
        /\ Cardinality(StationCalls) = 1

\* C9 as amended: an ok station response without the forecast URL gives
\* valid=false, forecast_url_missing and defaults elsewhere, with no forecast
\* call and after the station-lookup calls of the retry loop: at most
\* retry_n, every one before the last not ok, the ok one the last event of
\* the run, and exactly one call when the first response is ok.
Thm_C9_UrlMissing ==
    (StationStageOver /\ station_response.ok
     /\ ~HasForecastUrl(station_response.body)) =>
        /\ pc = "returned"
        /\ current_weather = [CurrentWeather(FALSE) EXCEPT
                                 !.error_message = forecast_url_missing_message]
        /\ ForecastCalls = {}
        /\ Cardinality(StationCalls) \in 1..retry_n
        /\ log[Len(log)].op = "call"
        /\ log[Len(log)].id = station_response.id
        /\ \A p \in StationCalls : p < Len(log) => ~log[p].ok
        /\ log[1].ok => Cardinality(StationCalls) = 1

\* the station payload carries the location but not the forecast URL
Wit_C9_UrlMissing ==
    /\ pc = "returned"
    /\ station_response.ok
    /\ station_response.body = StationNoForecast
    /\ current_weather.error_message = forecast_url_missing_message

\* C10: when the station lookup gave a forecast URL and the final forecast
\* response is not ok, the result is valid=false with an empty message, the
\* sentinel temperature and empty location fields, whatever the station
\* payload carried.
Thm_C10_ForecastNotOk ==
    (Finished /\ ForecastCalls # {} /\ ~log[Len(log)].ok) =>
        /\ pc = "returned"
        /\ ForecastStageOver
        /\ ~forecast_response.ok
        /\ forecast_response.id = log[Len(log)].id
        /\ ~current_weather.valid_response
        /\ current_weather.error_message = ""
        /\ current_weather.temperature_celsius = SentinelTemperature
        /\ EmptyLocation(current_weather)

\* the forecast failed after a station payload with city, state and call sign
Wit_C10_ForecastNotOk ==
    /\ pc = "returned"
    /\ station_response.body = StationFull
    /\ ForecastStageOver
    /\ ~forecast_response.ok
    /\ Cardinality(ForecastCalls) = retry_n
    /\ current_weather = CurrentWeather(FALSE)

\* what the claims say of the payloads, read off the payloads themselves
HasPeriodTemperature(body) ==
    /\ body.t = "dict"
    /\ "properties" \in DOMAIN body.v
    /\ body.v.properties.t = "dict"
    /\ "periods" \in DOMAIN body.v.properties.v
    /\ body.v.properties.v.periods.t = "list"
    /\ Len(body.v.properties.v.periods.v) > 0
    /\ body.v.properties.v.periods.v[1].t = "dict"
    /\ "temperature" \in DOMAIN body.v.properties.v.periods.v[1].v
PeriodTemperature(body) == body.v.properties.v.periods.v[1].v.temperature
HasRadarStation(body) == "radarStation" \in DOMAIN body.v.properties.v
HasCityAndState(body) ==
    /\ "relativeLocation" \in DOMAIN body.v.properties.v
    /\ body.v.properties.v.relativeLocation.t = "dict"
    /\ "properties" \in DOMAIN body.v.properties.v.relativeLocation.v
    /\ body.v.properties.v.relativeLocation.v.properties.t = "dict"
    /\ {"city", "state"} \subseteq
          DOMAIN body.v.properties.v.relativeLocation.v.properties.v
\* the station payload, which has the forecast URL, has the three location values
HasLocation(body) == HasRadarStation(body) /\ HasCityAndState(body)
\* both stages are over and the forecast response is ok
BothOk == ForecastStageOver /\ station_response.ok /\ forecast_response.ok
FiveMessages ==
    { forecast_url_missing_message, invalid_input_coordinates_message,
      invalid_weather_api_response_message, temperature_missing_message,
      location_missing_message }

\* C11: when both responses are ok and the temperature of the first forecast
\* period cannot be extracted, the result is valid=true with
\* temperature_missing, the sentinel temperature and empty call sign, city
\* and state, whatever the station payload carries.
Thm_C11_TemperatureMissing ==
    (BothOk /\ ~HasPeriodTemperature(forecast_response.body)) =>
        /\ pc = "returned"
        /\ current_weather.valid_response
        /\ current_weather.error_message = temperature_missing_message
        /\ current_weather.temperature_celsius = SentinelTemperature
        /\ EmptyLocation(current_weather)

\* no temperature in the forecast, after a station payload with city, state
\* and call sign
Wit_C11_TemperatureMissing ==
    /\ pc = "returned"
    /\ BothOk
    /\ station_response.body = StationFull
    /\ forecast_response.body = ForecastOfPeriods(JList(<< EmptyDict >>))
    /\ current_weather.error_message = temperature_missing_message

\* C12: when both responses are ok, the temperature is extracted and one of
\* city, state and call sign is missing, the result is valid=true with
\* location_missing, the converted temperature and the three location fields
\* empty.  The code raises TypeError when the extracted temperature is not a
\* number.
CE_C12_LocationMissing ==
    (BothOk /\ HasPeriodTemperature(forecast_response.body)
     /\ ~HasLocation(station_response.body)) =>
        /\ pc = "returned"
        /\ current_weather.valid_response
        /\ current_weather.error_message = location_missing_message
        /\ EmptyLocation(current_weather)
        /\ PeriodTemperature(forecast_response.body).t = "num" =>
              current_weather.temperature_celsius * 9 =
                  5 * (PeriodTemperature(forecast_response.body).v - 32)
                    * CelsiusDenominator

\* C13: when the station lookup and the forecast lookup are both ok at their
\* first call and the payloads hold the forecast URL, city, state, call sign
\* and a Fahrenheit temperature, each endpoint is called exactly once, with
\* no delay, and the result is valid=true with an empty message, the
\* temperature 5/9 * (F - 32) and the call sign, city and state of the
\* station payload.
Thm_C13_FullSuccess ==
    (/\ Len(log) >= 2
     /\ log[1].ok
     /\ log[2].op = "call" /\ log[2].ok
     /\ BothOk
     /\ HasPeriodTemperature(forecast_response.body)
     /\ PeriodTemperature(forecast_response.body).t = "num"
     /\ HasLocation(station_response.body)) =>
        /\ pc = "returned"
        /\ Len(log) = 2
        /\ Cardinality(StationCalls) = 1
        /\ Cardinality(ForecastCalls) = 1
        /\ current_weather.valid_response
        /\ current_weather.error_message = ""
        /\ current_weather.temperature_celsius * 9 =
              5 * (PeriodTemperature(forecast_response.body).v - 32)
                * CelsiusDenominator
        /\ current_weather.radar_station =
              station_response.body.v.properties.v.radarStation
        /\ current_weather.coordinates_city =
              station_response.body.v.properties.v.relativeLocation.v.properties.v.city
        /\ current_weather.coordinates_state =
              station_response.body.v.properties.v.relativeLocation.v.properties.v.state

\* the exchange of test_request_current_weather_02: 23 degrees Fahrenheit,
\* which is -5 degrees Celsius
Wit_C13_FullSuccess ==
    /\ pc = "returned"
    /\ Len(log) = 2
    /\ station_response.body = StationFull
    /\ forecast_response.body = ForecastOfTemperature(JNum(23))
    /\ current_weather.valid_response
    /\ current_weather.temperature_celsius = -5 * CelsiusDenominator
    /\ current_weather.coordinates_city = JStr(str_Homer)
    /\ current_weather.coordinates_state = JStr(str_IL)
    /\ current_weather.radar_station = JStr(str_KILX)

\* C14: the error_message of a returned CurrentWeather is empty or one of
\* the five fixed messages, and the five messages differ from one another.
Thm_C14_ClosedMessages ==
    /\ Cardinality(FiveMessages) = 5
    /\ pc = "returned" => current_weather.error_message \in FiveMessages \cup {""}

\* a result with one of the five messages
Wit_C14_InvalidCoordinates ==
    /\ pc = "returned"
    /\ current_weather.error_message = invalid_input_coordinates_message

(***************************************************************************)
(* Claims about identify_closest_coordinates, checked under SpecClosest    *)
(***************************************************************************)
\* the distance from the query to row k (from 1) of the station table
StationKm(k) ==
    kilometers[<< Cell(coordinates_df, coordinates_df.rows[k], "lat"),
                  Cell(coordinates_df, coordinates_df.rows[k], "lon") >>]
NumStations == Len(coordinates_df.rows)
\* the table has numeric columns lat and lon
NumericLatLon ==
    /\ HasColumn(coordinates_df, "lat") /\ HasColumn(coordinates_df, "lon")
    /\ IsNumeric(coordinates_df, "lat") /\ IsNumeric(coordinates_df, "lon")
ClosestOver == icc_pc \in {"returned", "raised"}

\* C15: for a non-empty station table (numeric lat and lon, a query of two
\* coordinates) identify_closest_coordinates does not fail, and the pair
\* (index, distance) it returns is such that the index is a row of the
\* table, the distance is the distance from the query to that row, and no
\* row of the table is closer to the query.
Thm_C15_ClosestIsMinimal ==
    /\ (NumStations > 0 /\ NumericLatLon /\ Len(input_coordinates) = 2) =>
           icc_pc # "raised"
    /\ icc_pc = "returned" =>
           /\ closest[1] \in 0..(NumStations - 1)
           /\ ~closest[2].inf
           /\ closest[2].km = StationKm(closest[1] + 1)
           /\ \A k \in 1..NumStations : closest[2].km <= StationKm(k)

\* the closest station is the last of three rows, as in
\* test_identify_closest_coordinates_07
Wit_C15_ClosestIsLast ==
    /\ icc_pc = "returned"
    /\ NumStations = 3
    /\ closest[1] = 2
    /\ closest[2].km = 0
    /\ StationKm(1) > StationKm(2)
    /\ StationKm(2) > 0

\* C16: the index returned is the lowest among the rows at the minimum
\* distance: every row before it is farther from the query.
Thm_C16_TieKeepsFirst ==
    icc_pc = "returned" =>
        \A k \in 1..NumStations :
            StationKm(k) = closest[2].km => closest[1] + 1 <= k

\* two different stations at the same minimum distance on the first two
\* rows, and the first of them again on the third
Wit_C16_LaterTie ==
    /\ icc_pc = "returned"
    /\ NumStations = 3
    /\ closest[1] = 0
    /\ StationKm(2) = StationKm(1)
    /\ coordinates_df.rows[2] # coordinates_df.rows[1]
    /\ coordinates_df.rows[3] = coordinates_df.rows[1]

\* C17: with an empty station table, or a table without numeric lat and lon
\* columns, identify_closest_coordinates ends raising AssertionError; and no
\* call returns index -1 with an infinite distance.
Thm_C17_EmptyTableFails ==
    /\ (NumStations = 0 \/ ~NumericLatLon) =>
           /\ icc_pc # "returned"
           /\ icc_pc # "loop"
           /\ icc_pc = "raised" => icc_exception = "AssertionError"
    /\ icc_pc = "returned" => closest[1] # -1 /\ ~closest[2].inf

\* the empty table with columns lat and lon, and pl.DataFrame() of
\* test_identify_closest_coordinates_01, both refused
Wit_C17_EmptyTableFails ==
    /\ icc_pc = "raised"
    /\ icc_exception = "AssertionError"
    /\ NumStations = 0
    /\ Len(input_coordinates) = 2
    /\ HasColumn(coordinates_df, "lat")

(***************************************************************************)
(* Claims about filter_df_by_id_and_date, checked under SpecFilter         *)
(*                                                                         *)
(* Rows are counted from 1 here.  Every dataframe of SpecFilter has the    *)
(* rows of an id on consecutive rows, in ascending order of timestamp.     *)
(***************************************************************************)
FilterOver == fdf_pc \in {"returned", "raised"}
NumRows == Len(df.rows)
\* the call of the tests: both columns asked for, on a dataframe with the id
TimeSeriesCall ==
    /\ output_colnames = << "timestamp", "id" >>
    /\ id_colname = "id"
    /\ date_colname = "timestamp"
    /\ \E k \in 1..NumRows : df.rows[k][2] = id
\* the rows of the requested id with the month and day of the target
MatchedRows ==
    { k \in 1..NumRows :
        /\ df.rows[k][2] = id
        /\ df.rows[k][1][2] = target_datetime[2]
        /\ df.rows[k][1][3] = target_datetime[3] }
SameDate(j, k) ==
    \A c \in 1..3 : df.rows[j][1][c] = df.rows[k][1][c]
FirstOfDate == { k \in MatchedRows : \A j \in MatchedRows : SameDate(j, k) => k <= j }
LastOfDate == { k \in MatchedRows : \A j \in MatchedRows : SameDate(j, k) => j <= k }
\* the rows next to the matched dates that are rows of the dataframe
BracketRows ==
    { k \in 1..NumRows : k + 1 \in FirstOfDate \/ k - 1 \in LastOfDate }
ExpectedRows == { df.rows[k] : k \in MatchedRows \cup BracketRows }
ResultRows == { df1.rows[k] : k \in 1..Len(df1.rows) }
ResultAscending ==
    \A k \in 1..(Len(df1.rows) - 1) :
        ~TsLess(df1.rows[k + 1][1], df1.rows[k][1])
\* how many times row r is in the result
Occurrences(r) == Cardinality({ k \in 1..Len(df1.rows) : df1.rows[k] = r })

\* C18: called on a sorted series for an id it holds, the function returns
\* the rows of the id with the month and day of the target, and for each
\* matched date the row before its first matched row and the row after its
\* last matched row, in ascending order of timestamp.  The code raises
\* when the row before or after is not a row of the series.
CE_C18_MatchedAndBrackets ==
    (FilterOver /\ TimeSeriesCall) =>
        /\ fdf_pc = "returned"
        /\ ResultRows = ExpectedRows
        /\ ResultAscending

\* C19: when a matched row is the first or the last row of the series, the
\* function returns the matched rows and the brackets that are rows of the
\* series.  The code raises OutOfBoundsError: index 0 minus 1 is 2^32 - 1,
\* and the last index plus 1 is the length of the series.
CE_C19_BoundaryOmitsBracket ==
    (FilterOver /\ TimeSeriesCall
     /\ (1 \in MatchedRows \/ NumRows \in MatchedRows)) =>
        /\ fdf_pc = "returned"
        /\ ResultRows = ExpectedRows

\* C20: each row of the series is at most once in the result.  The code
\* gathers a row once for each time it is a matched row, a bracket before
\* and a bracket after.
CE_C20_NoRowTwice ==
    (fdf_pc = "returned" /\ TimeSeriesCall) =>
        \A k \in 1..NumRows : Occurrences(df.rows[k]) <= 1

\* C21: every row returned is a row of the requested id.  The code takes the
\* row before the first matched row and the row after the last one whatever
\* their id is.
CE_C21_OnlyRequestedId ==
    (fdf_pc = "returned" /\ TimeSeriesCall) =>
        \A k \in 1..Len(df1.rows) : df1.rows[k][2] = id

\* the projection of the rows of the input on output_colnames
InputRowsSelected == { Select(df.rows[k]) : k \in 1..NumRows }

\* C29: the call leaves the input dataframe as it was, every row it returns
\* is a row of the input (on the columns asked for), and when no row of the
\* requested id has the month and day of the target the result has no rows.
Thm_C29_RowsOfInput ==
    [][ fdf_pc' = "returned" =>
          /\ df' = df
          /\ \A k \in 1..Len(df1'.rows) : df1'.rows[k] \in InputRowsSelected
          /\ MatchedRows = {} => df1'.rows = << >> ]_vars

\* the id is in the dataframe, none of its rows is on the target date, and
\* the call returned no rows
Wit_C29_NoMatchEmpty ==
    /\ fdf_pc = "returned"
    /\ TimeSeriesCall
    /\ NumRows = MaxRows
    /\ MatchedRows = {}
    /\ \E k \in 1..NumRows :
          df.rows[k][2] = id /\ df.rows[k][1][2] = target_datetime[2]
    /\ df1.rows = << >>

(***************************************************************************)
(* Further claims about request_current_weather, checked under Spec and    *)
(* SpecFair                                                                *)
(***************************************************************************)
\* C25: the temperature of a returned CurrentWeather is the sentinel or lies
\* between -150 and 150.  The code assigns the converted temperature after
\* construction, where the bounds of the field are not checked.
CE_C25_TemperatureInBounds ==
    pc = "returned" =>
        \/ current_weather.temperature_celsius = SentinelTemperature
        \/ /\ -150 * CelsiusDenominator <= current_weather.temperature_celsius
           /\ current_weather.temperature_celsius <= 150 * CelsiusDenominator

\* the delays taken while retrying each stage
StationSleeps == SleepsOf("station")
ForecastSleeps == SleepsOf("forecast")

\* C27: when every external call returns, request_current_weather ends
\* (returning or raising), and at every moment it has made at most retry_n
\* station calls and retry_n forecast calls and taken at most retry_n - 1
\* delays in each stage.
Thm_C27_Terminates ==
    /\ <>Finished
    /\ [](/\ Cardinality(StationCalls) <= retry_n
          /\ Cardinality(ForecastCalls) <= retry_n
          /\ Cardinality(StationSleeps) <= retry_n - 1
          /\ Cardinality(ForecastSleeps) <= retry_n - 1)

\* both stages used every attempt and every delay
Wit_C27_AllAttemptsUsed ==
    /\ Finished
    /\ Cardinality(StationCalls) = retry_n
    /\ Cardinality(ForecastCalls) = retry_n
    /\ Cardinality(StationSleeps) = retry_n - 1
    /\ Cardinality(ForecastSleeps) = retry_n - 1

\* C28: in a returned CurrentWeather the call sign, city and state are set
\* only with valid=true and an empty message; the temperature is set only
\* with valid=true and a message that is empty or location_missing; and
\* with valid=true and an empty message the temperature is the converted
\* one and the call sign, city and state are those of the station payload.
Thm_C28_FieldsFollowMessage ==
    pc = "returned" =>
        /\ ~EmptyLocation(current_weather) =>
              /\ current_weather.valid_response
              /\ current_weather.error_message = ""
        /\ current_weather.temperature_celsius # SentinelTemperature =>
              /\ current_weather.valid_response
              /\ current_weather.error_message \in {"", location_missing_message}
        /\ (current_weather.valid_response /\ current_weather.error_message = "") =>
              /\ HasPeriodTemperature(forecast_response.body)
              /\ current_weather.temperature_celsius * 9 =
                    5 * (PeriodTemperature(forecast_response.body).v - 32)
                      * CelsiusDenominator
              /\ HasLocation(station_response.body)
              /\ current_weather.radar_station =
                    station_response.body.v.properties.v.radarStation
              /\ current_weather.coordinates_city =
                    station_response.body.v.properties.v.relativeLocation.v.properties.v.city
              /\ current_weather.coordinates_state =
                    station_response.body.v.properties.v.relativeLocation.v.properties.v.state

\* a converted temperature next to empty call sign, city and state
Wit_C28_TemperatureWithoutLocation ==
    /\ pc = "returned"
    /\ current_weather.valid_response
    /\ current_weather.error_message = location_missing_message
    /\ current_weather.temperature_celsius = -5 * CelsiusDenominator
    /\ EmptyLocation(current_weather)
    /\ station_response.body = StationNoRadar

(***************************************************************************)
(* Claims about get_historical_and_current_temperatures, checked under     *)
(* SpecAnnual                                                              *)
(***************************************************************************)
AnnualOver == gh_pc \in {"returned", "raised"}
\* the row of the station table that was resolved, and its coordinates
ResolvedRow == station_df.rows[closest[1] + 1]
ResolvedPoint == << ResolvedRow[6], ResolvedRow[7] >>
QueryPoint == << gh_coordinates.latitude, gh_coordinates.longitude >>
\* the live fetch ended in a CurrentWeather that is not a full success
SoftFailure ==
    /\ pc = "returned"
    /\ ~current_weather.valid_response \/ current_weather.error_message # ""
StepOrder == << "catalog", "resolve", "archive", "window", "live", "construct" >>

\* C22: every call of the station-lookup endpoint is given the latitude and
\* longitude of the station that was resolved, which are not those of the
\* query; and the distance of the AnnualWeather returned is the distance
\* from the query to that station.
Thm_C22_StationCoordinatesSent ==
    /\ \A p \in StationCalls :
          /\ log[p].args = ResolvedPoint
          /\ log[p].args # QueryPoint
    /\ gh_pc = "returned" =>
          /\ input_coordinates = QueryPoint
          /\ annual_weather.distance_to_station_kilometers.km =
                kilometers[ResolvedPoint]
          /\ annual_weather.annual_station_latitude = ResolvedPoint[1]
          /\ annual_weather.annual_station_longitude = ResolvedPoint[2]

\* the second station of the table is the nearest, the station lookup was
\* called once with its coordinates, and the request returned
Wit_C22_SecondStationSent ==
    /\ gh_pc = "returned"
    /\ Len(station_df.rows) = 2
    /\ closest[1] = 1
    /\ Cardinality(StationCalls) = 1
    /\ \A p \in StationCalls : log[p].args = << 70, -160 >>
    /\ annual_weather.current_error_message = ""

\* C23: when the live fetch ends in a soft failure, the request returns an
\* AnnualWeather (for every station row for which it returns one after a
\* full success) with the station and historical fields of the station row
\* and the temperature file, the null call as an empty string, the
\* error_message of the CurrentWeather, and the fields of the
\* CurrentWeather: empty call sign, city and state, and the sentinel unless
\* the message is location_missing.
Thm_C23_SoftFailureStillReturns ==
    (AnnualOver /\ gh_pc # "live" /\ SoftFailure /\ ResolvedRow # StationTooHigh) =>
        /\ gh_pc = "returned"
        /\ annual_weather.current_error_message = current_weather.error_message
        /\ annual_weather.current_temperature_celsius =
              current_weather.temperature_celsius
        /\ annual_weather.current_station = JStr(str_empty)
        /\ annual_weather.current_city = JStr(str_empty)
        /\ annual_weather.current_state = JStr(str_empty)
        /\ current_weather.error_message # location_missing_message =>
              annual_weather.current_temperature_celsius = SentinelTemperature
        /\ annual_weather.annual_usaf_station_id = ResolvedRow[1]
        /\ annual_weather.annual_wban_station_id = ResolvedRow[2]
        /\ annual_weather.annual_station_name = ResolvedRow[3]
        /\ annual_weather.annual_station_state = ResolvedRow[4]
        /\ annual_weather.annual_station_call =
              IF ResolvedRow[5] = JNull THEN JStr(str_empty) ELSE ResolvedRow[5]
        /\ annual_weather.annual_station_elevation_meters = ResolvedRow[8]
        /\ annual_weather.annual_timestamp =
              [k \in 1..Len(df1.rows) |-> df1.rows[k][1]]
        /\ Len(annual_weather.annual_temperature_celsius) = Len(df1.rows)
        /\ \A k \in 1..Len(df1.rows) :
              annual_weather.annual_temperature_celsius[k].tenths = df1.rows[k][2]

\* the request of test_get_historical_and_current_temperatures_04, on a
\* station whose call is null
Wit_C23_InvalidCoordinatesReturned ==
    /\ gh_pc = "returned"
    /\ ResolvedRow = StationNoCall
    /\ annual_weather.current_error_message = invalid_input_coordinates_message
    /\ annual_weather.current_temperature_celsius = SentinelTemperature
    /\ annual_weather.annual_station_call = JStr(str_empty)
    /\ Len(annual_weather.annual_timestamp) = 4

\* C24: the steps run in the order catalog, resolve, archive, window, live
\* fetch, construction; a step that raises ends the request, which returns
\* no AnnualWeather; the external service is called only once the live
\* fetch has started, which it does not after a step that raised; and a
\* request that returns has run every step.
Thm_C24_StepsInOrder ==
    /\ Len(gh_steps) <= Len(StepOrder)
    /\ gh_steps = SubSeq(StepOrder, 1, Len(gh_steps))
    /\ gh_exception # "" => gh_pc = "raised"
    /\ gh_pc = "raised" => gh_exception # "" /\ annual_weather = << >>
    /\ (\A k \in 1..Len(gh_steps) : gh_steps[k] # "live") => log = << >> /\ pc = "idle"
    /\ gh_pc = "returned" => gh_steps = StepOrder /\ annual_weather # << >>

\* the temperature file of the resolved station is missing: the request
\* ended before the window and the live fetch
Wit_C24_ArchiveMissing ==
    /\ gh_pc = "raised"
    /\ gh_exception = "FileNotFoundError"
    /\ gh_steps = << "catalog", "resolve", "archive" >>
    /\ log = << >>

(***************************************************************************)
(* Claims about the batch loop of download_isd_lite.main, checked under    *)
(* SpecDownload                                                            *)
(***************************************************************************)
BatchesOf(k) == { b \in 1..Len(batches) : k \in batches[b] }

\* C30: the loop does not fail, on the empty list either, and when it is
\* over every index 0..file_n - 1 was in exactly one batch and no batch had
\* more than batch_size files.
CE_C30_BatchesPartition ==
    /\ dl_pc # "raised"
    /\ dl_pc = "done" =>
          /\ \A k \in 0..(file_n - 1) : Cardinality(BatchesOf(k)) = 1
          /\ \A b \in 1..Len(batches) : Cardinality(batches[b]) <= batch_size

(***************************************************************************)
(* Claims about two requests at a time, checked under SpecConcurrent       *)
(***************************************************************************)
\* the last call of operation who that request made
LastCallOf(request, who) ==
    CHOOSE k \in 1..Len(request.log) :
        /\ request.log[k].op = "call" /\ request.log[k].who = who
        /\ \A j \in (k + 1)..Len(request.log) :
              ~(request.log[j].op = "call" /\ request.log[j].who = who)
\* resp is the response of the last call of who that request made
IsLastResponse(request, who, resp) ==
    /\ \E k \in 1..Len(request.log) :
          request.log[k].op = "call" /\ request.log[k].who = who
    /\ resp.id = LastCallOf(request, who)
    /\ resp.ok = request.log[LastCallOf(request, who)].ok

\* how request_current_weather ends on the responses request received
OwnLive(request) ==
    LET out == StationOutcome(request.station_response) IN
    IF out.kind = "continue"
    THEN ForecastOutcome(request.station_response, request.forecast_response)
    ELSE out

\* request_current_weather of request ended as it ends alone on the
\* responses to the calls of request
LiveAlone(request) ==
    /\ IsLastResponse(request, "station", request.station_response)
    /\ StationOutcome(request.station_response).kind = "continue" =>
          IsLastResponse(request, "forecast", request.forecast_response)
    /\ request.pc = "returned" =>
          /\ OwnLive(request).kind = "return"
          /\ request.current_weather = OwnLive(request).cw
    /\ request.pc = "raised" =>
          /\ OwnLive(request).kind = "raise"
          /\ request.exception = OwnLive(request).exc

\* the nearest station of the table by the distances of request, the first
\* of the nearest ones
NearestTo(request) ==
    LET km(n) == request.kilometers[<< catalog.frame.rows[n][6],
                                        catalog.frame.rows[n][7] >>]
    IN CHOOSE n \in 1..Len(catalog.frame.rows) :
          /\ \A m \in 1..Len(catalog.frame.rows) : km(n) <= km(m)
          /\ \A m \in 1..(n - 1) : km(n) < km(m)

\* the rows of the temperature file of request on the day of its request
OwnWindow(request) ==
    { << r[1], r[2] >> : r \in
        { request.archive.frame.rows[k] : k \in
            { n \in 1..Len(request.archive.frame.rows) :
                /\ Month(request.archive.frame.rows[n][1]) = Month(request.now)
                /\ Day(request.archive.frame.rows[n][1]) = Day(request.now) } } }
OwnArchiveRows(request) ==
    { << request.archive.frame.rows[k][1], request.archive.frame.rows[k][2] >> :
        k \in 1..Len(request.archive.frame.rows) }

\* get_historical_and_current_temperatures of request ended as it ends
\* alone on the query, the files and the responses of request
AnnualAlone(request) ==
    /\ request.gh_pc = "returned" =>
          LET station == catalog.frame.rows[NearestTo(request)]
              rows == request.df1.rows
          IN
          /\ request.pc = "returned"
          /\ LiveAlone(request)
          /\ \A k \in 1..Len(request.log) :
                (request.log[k].op = "call" /\ request.log[k].who = "station") =>
                   request.log[k].args = << station[6], station[7] >>
          /\ OwnWindow(request) \subseteq { rows[k] : k \in 1..Len(rows) }
          /\ { rows[k] : k \in 1..Len(rows) } \subseteq OwnArchiveRows(request)
          /\ request.annual_weather =
                AnnualWeatherOf(
                    OwnLive(request).cw,
                    Finite(request.kilometers[<< station[6], station[7] >>]),
                    [timestamp |-> [k \in 1..Len(rows) |-> rows[k][1]],
                     temperature |-> [k \in 1..Len(rows) |-> Degrees(rows[k][2])]],
                    DataFrame(StationShape, << station >>))
    /\ request.gh_pc = "raised" =>
          /\ request.annual_weather = << >>
          /\ request.gh_exception =
                IF ~catalog.exists THEN "FileNotFoundError"
                ELSE IF ~ClosestPrechecks(
                            << request.gh_coordinates.latitude,
                               request.gh_coordinates.longitude >>,
                            SelectColumns(catalog.frame, << "lat", "lon" >>))
                THEN "AssertionError"
                ELSE IF ~request.archive.exists THEN "FileNotFoundError"
                ELSE IF request.fdf_pc = "raised" THEN request.fdf_exception
                ELSE IF request.pc = "raised" THEN OwnLive(request).exc
                ELSE "ValidationError"
          /\ request.pc = "raised" => LiveAlone(request)

EndedAsAlone(request) ==
    IsOver(request) =>
        IF request.endpoint = "current" THEN LiveAlone(request)
        ELSE AnnualAlone(request)

\* C26: under every interleaving of the steps of two requests, a request
\* that is over ended as it ends alone: its result is the one that its own
\* query, its own files and the responses to its own calls give, whatever
\* the other request did in between.
Thm_C26_RequestsIndependent ==
    /\ EndedAsAlone(Running)
    /\ parked # << >> => EndedAsAlone(parked)

\* two annual requests whose steps were interleaved returned, each with
\* the station nearest to its own query, and with different live results
Wit_C26_InterleavedRequestsReturned ==
    /\ overlapped
    /\ endpoint = "annual" /\ parked.endpoint = "annual"
    /\ gh_pc = "returned" /\ parked.gh_pc = "returned"
    /\ annual_weather.annual_usaf_station_id = 7220
    /\ parked.annual_weather.annual_usaf_station_id = 7221
    /\ annual_weather.current_error_message = ""
    /\ parked.annual_weather.current_error_message =
          invalid_input_coordinates_message
    /\ annual_weather.distance_to_station_kilometers = Finite(1)
    /\ parked.annual_weather.distance_to_station_kilometers = Finite(1)

====
